---- MODULE Spec2Model ----
(***************************************************************************)
(* Job-event reconciliation and real-time fan-out of the API gateway:      *)
(* the script.ready consumer (message_broker.py), the event handler and    *)
(* its normalisation (main.py handle_script_ready), the job store          *)
(* (database.py) and the WebSocket connection registry (websocket.py).     *)
(*                                                                         *)
(* Python values are modelled as follows.  Strings are TLA+ strings, a     *)
(* missing key or None is the string None, a non-string scalar n is the    *)
(* string "#n".  Dictionaries are functions whose domain is the set of     *)
(* keys that are present; lists are sequences.  Every step of a coroutine  *)
(* between two awaits is one atomic action.                                *)
(***************************************************************************)
EXTENDS Integers, Sequences, FiniteSets, TLC

\* ---------------------------------------------------------------- bounds
MaxJobs == 2
MaxDeliveries == 2
MaxRedeliveries == 4
MaxPublishes == 2
MaxBroadcasts == 1
MaxNotifications == 1
MaxMessages == 2
MaxDispatches == 1
MaxCallbacks == 2
MaxStatusCalls == 1
MaxReconciles == 1
MaxTopicPublishes == 1
MaxNormalizations == 2
MaxAcknowledged == 1

\* ------------------------------------------------------- python values
None == "<None>"

EmptyDict == [k \in {} |-> None]

\* a truth test written as "is not None"
TruthyNotNone(x) == x # None

\* bool(x) of a scalar: None, "" and 0 are falsy
Truthy(x) == x # None /\ x # "" /\ x # "#0"

\* isinstance(x, str)
IsStr(x) == x # None /\ (Len(x) = 0 \/ SubSeq(x, 1, 1) # "#")

\* str(x)
Str(x) == IF x = None THEN "None" ELSE IF IsStr(x) THEN x ELSE SubSeq(x, 2, Len(x))

\* sub in s
Contains(s, sub) == \E i \in 1..(Len(s) - Len(sub) + 1) : SubSeq(s, i, i + Len(sub) - 1) = sub

\* d.get(k)
DictGet(d, k) == IF k \in DOMAIN d THEN d[k] ELSE None

\* d.get(k, dflt)
DictGetOr(d, k, dflt) == IF k \in DOMAIN d THEN d[k] ELSE dflt

\* a or b
Or(a, b) == IF Truthy(a) THEN a ELSE b

\* isinstance(x, dict): a value that is not a dict is [notdict |-> TRUE],
\* a bare string inside a list of images is [str |-> s]
IsDict(x) == "notdict" \notin DOMAIN x /\ "str" \notin DOMAIN x

\* {**d, **u} and the effect of {"$set": u} on a document
Merge(d, u) == [k \in DOMAIN d \cup DOMAIN u |-> IF k \in DOMAIN u THEN u[k] ELSE d[k]]

DelKey(d, k) == [x \in DOMAIN d \ {k} |-> d[x]]

RECURSIVE Reverse(_)
Reverse(s) == IF s = <<>> THEN <<>> ELSE Append(Reverse(Tail(s)), Head(s))

\* list.pop(i) with a 0-based i < len(list)
PopAt(lst, i) == SubSeq(lst, 1, i) \o SubSeq(lst, i + 2, Len(lst))

\* list.remove(x): the first occurrence
RemoveFirst(lst, x) ==
    LET i == CHOOSE j \in 1..Len(lst) : lst[j] = x /\ \A k \in 1..(j - 1) : lst[k] # x
    IN  PopAt(lst, i - 1)

InList(lst, x) == \E j \in 1..Len(lst) : lst[j] = x

\* ------------------------------------------------------------- statuses
PENDING == "PENDING"
READY == "READY"

\* ------------------------------------------------ event normalisation
RECURSIVE SceneImageUrls(_)
SceneImageUrls(imgs) ==
    IF imgs = <<>> THEN <<>>
    ELSE LET img == Head(imgs)
             rest == SceneImageUrls(Tail(imgs))
         IN  IF IsDict(img) /\ "cloudinary_url" \in DOMAIN img THEN <<img.cloudinary_url>> \o rest
             ELSE IF IsDict(img) /\ "url" \in DOMAIN img THEN <<img.url>> \o rest
             ELSE rest

RECURSIVE AltImageUrls(_)
AltImageUrls(imgs) ==
    IF imgs = <<>> THEN <<>>
    ELSE LET img == Head(imgs)
             rest == AltImageUrls(Tail(imgs))
         IN  IF IsDict(img)
             THEN LET u == Or(DictGet(img, "url"), DictGet(img, "cloudinary_url"))
                  IN  IF Truthy(u) THEN <<u>> \o rest ELSE rest
             ELSE IF "str" \in DOMAIN img THEN <<img.str>> \o rest
             ELSE rest

\* the top-level script_id preferred to script._id
ExtractScriptIdTopLevelFirst(data) ==
    LET script_data == DictGetOr(data, "script", EmptyDict)
        sid == IF IsDict(script_data) THEN DictGet(script_data, "_id") ELSE None
    IN  IF Truthy(DictGet(data, "script_id")) THEN DictGet(data, "script_id") ELSE sid

\* lines 134-141: script._id, else the top-level script_id
ExtractScriptId(data) ==
    LET script_data == DictGetOr(data, "script", EmptyDict)
        sid == IF IsDict(script_data) THEN DictGet(script_data, "_id") ELSE None
    IN  IF Truthy(sid) THEN sid ELSE DictGet(data, "script_id")

ExtractCollectionId(data) ==
    LET script_data == DictGetOr(data, "script", EmptyDict)
        cid == IF IsDict(script_data) THEN DictGet(script_data, "collection_id") ELSE None
    IN  IF Truthy(cid) THEN cid ELSE DictGet(data, "collection_id")

\* the job_id taken, as process_message takes it, from collection_id as a last resort
ResolveJobIdOrCollection(data) ==
    LET script_id == ExtractScriptId(data)
    IN  IF Truthy(script_id) THEN Str(script_id) ELSE ExtractCollectionId(data)

\* lines 153-160: the job_id handle_script_ready resolves
ResolveJobId(data) ==
    LET script_id == ExtractScriptId(data)
    IN  IF Truthy(script_id)
        THEN IF IsStr(script_id) /\ (Len(script_id) = 36 \/ Contains(script_id, "-"))
             THEN script_id
             ELSE Str(script_id)
        ELSE None

\* the values handle_script_ready extracts from an event whose job_id it resolved
Normalize(data) ==
    LET script_data == DictGetOr(data, "script", EmptyDict)
        voice_data == DictGetOr(data, "voice", EmptyDict)
        image_data == DictGetOr(data, "image", EmptyDict)
        job_id == ResolveJobId(data)
        audio0 == IF IsDict(voice_data) THEN DictGet(voice_data, "audio_url") ELSE None
        scene_voiceovers == IF IsDict(voice_data) THEN DictGetOr(voice_data, "scene_voiceovers", <<>>) ELSE <<>>
        scene_images == IF IsDict(image_data) THEN DictGetOr(image_data, "scene_images", <<>>) ELSE <<>>
        urls0 == IF IsDict(image_data) THEN SceneImageUrls(scene_images) ELSE <<>>
        scenes0 == DictGetOr(script_data, "scenes", <<>>)
        text0 == DictGetOr(script_data, "script_text", "")
        scenes == IF scenes0 = <<>> /\ Truthy(text0)
                  THEN << [scene_id |-> job_id \o "_scene_1",
                           script |-> text0,
                           visual |-> DictGetOr(script_data, "visual_description", "")] >>
                  ELSE scenes0
        script_text == IF Truthy(text0) THEN text0
                       ELSE Or(DictGet(script_data, "content"),
                               Or(DictGet(data, "content"), Or(DictGet(data, "text"), "")))
        audio_url == IF Truthy(audio0) THEN audio0
                     ELSE Or(DictGet(voice_data, "url"), Or(DictGet(data, "audio_url"), ""))
        alt_images == LET a == DictGetOr(image_data, "images", <<>>)
                      IN  IF a # <<>> THEN a ELSE DictGetOr(data, "images", <<>>)
        image_urls == IF urls0 = <<>> /\ IsDict(image_data) THEN AltImageUrls(alt_images) ELSE urls0
    IN  [raises |-> ~IsDict(script_data) \/ (~IsDict(voice_data) /\ ~Truthy(audio0)),
         job_id |-> job_id,
         collection_id |-> ExtractCollectionId(data),
         title |-> DictGetOr(script_data, "title", "Generated Script"),
         scenes |-> scenes,
         metadata |-> DictGetOr(script_data, "metadata", EmptyDict),
         scene_voiceovers |-> scene_voiceovers,
         scene_images |-> scene_images,
         script_text |-> script_text,
         audio_url |-> audio_url,
         image_urls |-> image_urls]

\* update_data, the argument handle_script_ready passes to the store
UpdateData(n, now) ==
    [status |-> READY,
     updated_at |-> now,
     script |-> [_id |-> n.job_id, collection_id |-> n.collection_id,
                 scenes |-> n.scenes, metadata |-> n.metadata],
     voice_data |-> [script_id |-> n.job_id, collection_id |-> n.collection_id,
                     scene_voiceovers |-> n.scene_voiceovers],
     image_data |-> [script_id |-> n.job_id, collection_id |-> n.collection_id,
                     scene_images |-> n.scene_images],
     script_text |-> n.script_text,
     audio_url |-> n.audio_url,
     image_urls |-> n.image_urls]

\* ------------------------------------------------------------ job store
HexChars == {"0", "1", "2", "3", "4", "5", "6", "7", "8", "9",
             "a", "b", "c", "d", "e", "f", "A", "B", "C", "D", "E", "F"}

\* ObjectId(x) does not raise
ValidObjectId(x) == Len(x) = 24 /\ \A i \in 1..24 : SubSeq(x, i, i) \in HexChars

\* the _id the collection assigns to its n-th inserted document
NewObjectId(n) == "00000000000000000000000" \o ToString(n)

\* str(uuid.uuid4()) of the n-th insert
NewUuid(n) == "9f1c2d3e-0000-4000-8000-00000000000" \o ToString(n)

\* find_one / update_one select the first document, in natural order, whose field equals x
FindBy(js, field, x) ==
    IF \E i \in 1..Len(js) : field \in DOMAIN js[i] /\ js[i][field] = x
    THEN CHOOSE i \in 1..Len(js) :
            /\ field \in DOMAIN js[i] /\ js[i][field] = x
            /\ \A k \in 1..(i - 1) : ~(field \in DOMAIN js[k] /\ js[k][field] = x)
    ELSE 0

\* the script_id preferred to the job_id
CreateJobIdScriptFirst(job_data, n) ==
    LET j == Or(DictGet(job_data, "script_id"), Or(DictGet(job_data, "job_id"), DictGet(job_data, "id")))
    IN  IF Truthy(j) THEN j ELSE NewUuid(n)

\* create_job: the job_id of the new job
CreateJobId(job_data, n) ==
    LET j == Or(DictGet(job_data, "job_id"), Or(DictGet(job_data, "script_id"), DictGet(job_data, "id")))
    IN  IF Truthy(j) THEN j ELSE NewUuid(n)

\* create_job: the document inserted for job_data
CreateJobDoc(job_data, n, now) ==
    Merge(Merge(job_data, [job_id |-> CreateJobId(job_data, n),
                           created_at |-> now,
                           updated_at |-> now,
                           status |-> PENDING]),
          [_id |-> NewObjectId(n)])

\* the job_data handle_script_ready creates a missing job from
HandlerJobData(n) ==
    [job_id |-> n.job_id, collection_id |-> n.collection_id, title |-> n.title, status |-> PENDING]

\* a $set document that names all three sections, None for those the data lacks
ReconcileSetWithDefaults(data, now) ==
    [status |-> READY, updated_at |-> now, script |-> DictGet(data, "script"),
     voice_data |-> DictGet(data, "voice_data"), image_data |-> DictGet(data, "image_data")]

\* update_job_from_script_ready: the $set document it builds from data
ReconcileSet(data, now) ==
    Merge(Merge(Merge([status |-> READY, updated_at |-> now],
                      IF "script" \in DOMAIN data THEN [script |-> data.script] ELSE EmptyDict),
                IF "voice_data" \in DOMAIN data THEN [voice_data |-> data.voice_data] ELSE EmptyDict),
          IF "image_data" \in DOMAIN data THEN [image_data |-> data.image_data] ELSE EmptyDict)

\* an update that pushes the event's scenes onto the stored ones
ReconcileDocAppending(doc, data, now) ==
    LET upd == ReconcileSet(data, now)
    IN  IF "script" \in DOMAIN doc /\ "script" \in DOMAIN upd
        THEN Merge(doc, Merge(upd, [script |-> [upd.script EXCEPT !.scenes = doc.script.scenes \o @]]))
        ELSE Merge(doc, upd)

\* the matched document after update_one(filter, {"$set": update_data})
ReconcileDoc(doc, data, now) == Merge(doc, ReconcileSet(data, now))

\* the uuid and id lookups in the other order
ReconcileFieldIdBeforeUuid(strategy) ==
    CASE strategy = "upd_job_id" -> "job_id"
      [] strategy = "upd_oid" -> "_id"
      [] strategy = "upd_uuid" -> "id"
      [] strategy = "upd_id" -> "uuid"
      [] strategy = "upd_coll" -> "collection_id"

\* the lookup strategies of update_job_from_script_ready, in the order they are tried
ReconcileField(strategy) ==
    CASE strategy = "upd_job_id" -> "job_id"
      [] strategy = "upd_oid" -> "_id"
      [] strategy = "upd_uuid" -> "uuid"
      [] strategy = "upd_id" -> "id"
      [] strategy = "upd_coll" -> "collection_id"


\* the collection_id of the last-resort strategy
ReconcileCollectionId(data) ==
    IF "script" \in DOMAIN data /\ IsDict(data.script) THEN DictGet(data.script, "collection_id")
    ELSE DictGet(data, "collection_id")

\* the strategy tried after a miss of strategy; "miss" when all are exhausted
ReconcileNext(strategy, job_id, data) ==
    LET fromUuid == "upd_uuid"
        fromColl == IF Truthy(ReconcileCollectionId(data)) THEN "upd_coll" ELSE "miss"
    IN  CASE strategy = "upd_job_id" -> (IF ValidObjectId(job_id) THEN "upd_oid" ELSE fromUuid)
          [] strategy = "upd_oid" -> fromUuid
          [] strategy = "upd_uuid" -> "upd_id"
          [] strategy = "upd_id" -> fromColl
          [] strategy = "upd_coll" -> "miss"

\* the storage key looked up before the job_id field
GetFieldKeyFirst(strategy) ==
    CASE strategy = "get_job_id" -> "_id"
      [] strategy = "get_oid" -> "job_id"
      [] strategy = "get_uuid" -> "uuid"
      [] strategy = "get_id" -> "id"

\* the lookup strategies of get_job
GetField(strategy) ==
    CASE strategy = "get_job_id" -> "job_id"
      [] strategy = "get_oid" -> "_id"
      [] strategy = "get_uuid" -> "uuid"
      [] strategy = "get_id" -> "id"

GetNext(strategy, job_id) ==
    CASE strategy = "get_job_id" -> (IF ValidObjectId(job_id) THEN "get_oid" ELSE "get_uuid")
      [] strategy = "get_oid" -> "get_uuid"
      [] strategy = "get_uuid" -> "get_id"
      [] strategy = "get_id" -> "miss"

\* datetime.isoformat() of the timestamp read at clock value t
IsoFormat(t) == "T" \o ToString(t)

\* what get_job returns for the document it found: _id becomes the string id,
\* created_at and updated_at become ISO strings
GetJobResult(doc) ==
    LET d == IF "_id" \in DOMAIN doc THEN DelKey(Merge(doc, [id |-> Str(doc._id)]), "_id") ELSE doc
    IN  [k \in DOMAIN d |-> IF k \in {"created_at", "updated_at"} THEN IsoFormat(d[k]) ELSE d[k]]

\* get_job as one uninterrupted call: <<>> when absent, else <<the returned job>>
RECURSIVE GetJobFrom(_, _, _)
GetJobFrom(js, job_id, strategy) ==
    IF strategy = "miss" THEN <<>>
    ELSE LET i == FindBy(js, GetField(strategy), job_id)
         IN  IF i # 0 THEN << GetJobResult(js[i]) >>
             ELSE GetJobFrom(js, job_id, GetNext(strategy, job_id))

GetJob(js, job_id) == GetJobFrom(js, job_id, "get_job_id")

\* -------------------------------------------------- connection registry
\* the collection_id preferred to the job_id
ConnectionKeyCollectionFirst(job_id, collection_id) ==
    IF Truthy(collection_id) THEN "collection:" \o collection_id
    ELSE IF Truthy(job_id) THEN "job:" \o job_id
    ELSE "general"

\* the key connect and disconnect compute from their arguments
ConnectionKey(job_id, collection_id) ==
    IF Truthy(job_id) THEN "job:" \o job_id
    ELSE IF Truthy(collection_id) THEN "collection:" \o collection_id
    ELSE "general"

\* the connections registered under key
Members(reg, key) == IF key \in DOMAIN reg THEN {reg[key][i] : i \in 1..Len(reg[key])} ELSE {}

\* connect: the registry after the accepted websocket is stored
RegistryConnect(reg, ws, key) ==
    IF key \in DOMAIN reg THEN [reg EXCEPT ![key] = Append(@, ws)]
    ELSE Merge(reg, [k \in {key} |-> <<ws>>])

\* disconnect: the registry after the websocket is removed
RegistryDisconnect(reg, ws, key) ==
    IF key \in DOMAIN reg /\ InList(reg[key], ws)
    THEN LET lst == RemoveFirst(reg[key], ws)
         IN  IF lst = <<>> THEN DelKey(reg, key) ELSE [reg EXCEPT ![key] = lst]
    ELSE reg

\* _send_update, lines 83-84: pop the recorded indices, largest first;
\* ok is FALSE when a pop raises IndexError
RECURSIVE PopAll(_, _)
PopAll(lst, indices) ==
    IF indices = <<>> THEN [ok |-> TRUE, lst |-> lst]
    ELSE IF Head(indices) >= Len(lst) THEN [ok |-> FALSE, lst |-> lst]
    ELSE PopAll(PopAt(lst, Head(indices)), Tail(indices))

\* a pruning that leaves the emptied list in the registry
CleanupKeepingEmpty(reg, key, disconnected) ==
    IF key \notin DOMAIN reg THEN [raised |-> TRUE, reg |-> reg]
    ELSE LET r == PopAll(reg[key], Reverse(disconnected))
         IN  [raised |-> ~r.ok, reg |-> [reg EXCEPT ![key] = r.lst]]

\* _send_update, lines 82-89: the pruning after the loop; raised is TRUE
\* when looking the key up raises KeyError or a pop raises IndexError
Cleanup(reg, key, disconnected) ==
    IF key \notin DOMAIN reg THEN [raised |-> TRUE, reg |-> reg]
    ELSE LET r == PopAll(reg[key], Reverse(disconnected))
         IN  IF ~r.ok THEN [raised |-> TRUE, reg |-> [reg EXCEPT ![key] = r.lst]]
             ELSE IF r.lst = <<>> THEN [raised |-> FALSE, reg |-> DelKey(reg, key)]
             ELSE [raised |-> FALSE, reg |-> [reg EXCEPT ![key] = r.lst]]

\* _send_update without its membership test
TopicPresentAlways(reg, key) == TRUE

\* _send_update, line 69: whether the loop over the key's list is entered
TopicPresent(reg, key) == key \in DOMAIN reg

\* ------------------------------------------------------------- inputs
\* the script.ready message bodies the broker delivers
Events ==
    << [script |-> [_id |-> "abc-123-uuid", collection_id |-> "c1",
                    script_text |-> "Hello world", scenes |-> <<>>],
        voice |-> [audio_url |-> "http://x/a.mp3"],
        image |-> [scene_images |-> << [cloudinary_url |-> "http://x/i.jpg"] >>]],
       [script |-> [_id |-> "abc-123-uuid", script_text |-> "Take two",
                    scenes |-> << [scene_id |-> "s1", script |-> "Take two", visual |-> "v"] >>]],
       [collection_id |-> "c1"],
       [collection_id |-> "", content |-> "orphan"] >>

\* the query parameters a WebSocket client connects with
Subscriptions ==
    { [job_id |-> "abc-123-uuid", collection_id |-> None],
      [job_id |-> None, collection_id |-> "c1"] }

\* the arguments connect and disconnect are called with: a job_id, a
\* collection_id, both, neither
TopicArguments ==
    { [job_id |-> "abc-123-uuid", collection_id |-> None],
      [job_id |-> None, collection_id |-> "c1"],
      [job_id |-> "abc-123-uuid", collection_id |-> "c1"],
      [job_id |-> None, collection_id |-> None],
      [job_id |-> "", collection_id |-> "c1"] }

\* the WebSocket objects and the concurrently running message handlers
Sockets == {1, 2}
Handlers == {1, 2}

\* -------------------------------------------------------------- state
VARIABLES
    jobs,                \* the jobs collection, in natural (insertion) order
    clock,               \* datetime.utcnow(), read as a strictly increasing counter
    active_connections,  \* ConnectionManager.active_connections
    sockets,             \* per WebSocket: where its endpoint coroutine is, and its query parameters
    tasks,               \* per handler: the process_message coroutine of one delivered message
    deliveries,          \* number of messages delivered so far
    lastReconcile,       \* history: the last write to jobs, when it was a reconcile
    redelivery,          \* history: the last message processed alone, and the store it left
    callbacks,           \* MessageBroker.callbacks: the registered keys, in insertion order
    statusCall,          \* the coroutine of a direct caller of the job store (update_job_status, ...)
    bcast,               \* the coroutine of a caller of ConnectionManager.broadcast
    trace                \* history: what each connection received, kept where it is read

vars == <<jobs, clock, active_connections, sockets, tasks, deliveries, lastReconcile, redelivery,
          callbacks, statusCall, bcast, trace>>

IdleTask ==
    [pc |-> "idle", ev |-> 0, seq |-> 0, ts |-> 0, stage |-> None, key |-> None, idx |-> 0, cur |-> 0,
     disconnected |-> <<>>, detached |-> FALSE,
     \* history of this message's processing
     created |-> FALSE, wrote |-> FALSE, raised |-> FALSE, sendFailed |-> FALSE, resent |-> FALSE,
     pubs |-> <<>>, body |-> None, called |-> <<>>, acked |-> FALSE, storeError |-> FALSE,
     tried |-> {}, failed |-> {}, stayed |-> {}, missed |-> {}, unpruned |-> {}]

\* broadcast before it is called: the loop state of a publish and the keys still to visit
IdleBroadcast == Merge(IdleTask, [keys |-> <<>>, n |-> 0])

\* update_job_status before it is called; wrote and raced are history
IdleStatusCall ==
    [pc |-> "idle", job_id |-> None, status |-> None, data |-> EmptyDict, ts |-> 0, n |-> 0,
     wrote |-> FALSE, raced |-> FALSE,
     \* the function called, and history: the record written or found, what was returned
     op |-> None, doc |-> 0, ret |-> <<>>, raised |-> FALSE,
     \* make_service_request: the loop variable, the exception raised, and
     \* history: how each upstream attempt ended
     attempt |-> 0, exc |-> <<>>, outcomes |-> <<>>]

\* the history of publishes is kept only in the behaviours that read it
NoTrace == [on |-> FALSE, inbox |-> <<>>, started |-> <<>>, completed |-> {}]
EmptyTrace == [on |-> TRUE, inbox |-> [w \in Sockets |-> <<>>], started |-> <<>>, completed |-> {}]

NoReconcile == [ev |-> 0, doc |-> 0, n |-> 0]
NoRedelivery == [ev |-> 0, n |-> 0, post |-> <<>>]

Init ==
    /\ jobs = <<>>
    /\ clock = 0
    /\ active_connections = EmptyDict
    /\ sockets = [w \in Sockets |-> [st |-> "new", job_id |-> None, collection_id |-> None]]
    /\ tasks = [h \in Handlers |-> IdleTask]
    /\ deliveries = 0
    /\ lastReconcile = NoReconcile
    /\ redelivery = NoRedelivery
    /\ callbacks = <<>>
    /\ statusCall = IdleStatusCall
    /\ bcast = IdleBroadcast
    /\ trace = NoTrace

\* an event whose voice is a string without an audio_url: voice_data.get raises
FaultyEvents ==
    << [script_id |-> "abc-123-uuid", voice |-> [str |-> "a.mp3"]] >>

AllEvents == Events \o FaultyEvents

\* events whose script._id has the shapes producers use - a UUID, a hyphenated
\* name, a 24-digit storage key, a short name - with and without a top-level
\* script_id that differs
IdentifierPayloads ==
    << [script |-> [_id |-> "123e4567-e89b-12d3-a456-426614174000", script_text |-> "Hello world"],
        script_id |-> "other-1"],
       [script |-> [_id |-> "64b7f0c2a1d3e4f5a6b7c8d9", script_text |-> "Hello world"],
        script_id |-> "abc-123-uuid"],
       [script |-> [_id |-> "job42", script_text |-> "Hello world"]],
       [script |-> [_id |-> "abc-123-uuid", script_text |-> "Hello world"], script_id |-> "job42"] >>

\* events with and without scenes, whose text is in script.script_text,
\* script.content, content or text
ScenePayloads ==
    << [script |-> [_id |-> "abc-123-uuid", script_text |-> "Hello world", scenes |-> <<>>,
                    visual_description |-> "a meadow"]],
       [script |-> [_id |-> "abc-123-uuid", script_text |-> "Hello world",
                    scenes |-> << [scene_id |-> "s1", script |-> "Hi", visual |-> "a lake"] >>]],
       [script |-> [_id |-> "abc-123-uuid", content |-> "From content", visual_description |-> "a meadow"]],
       [script |-> [_id |-> "abc-123-uuid", scenes |-> <<>>], text |-> "From text"],
       [script |-> [_id |-> "abc-123-uuid"]] >>

\* every message body the specifications deliver
Payloads == AllEvents \o IdentifierPayloads \o ScenePayloads

Event(tk) == Payloads[tk.ev]
JobIdOf(tk) == ResolveJobId(Event(tk))
CollectionIdOf(tk) == ExtractCollectionId(Event(tk))

\* --------------------------------------- _send_update as a coroutine
\* the list object the for loop of _send_update iterates: the key's list at
\* the time the loop started; once the key was deleted that object is empty
\* and no longer the registry's
IterList(tk, reg) == IF tk.detached \/ tk.key \notin DOMAIN reg THEN <<>> ELSE reg[tk.key]

\* what a change of the registry by another coroutine means for a running loop
Observe(tk, reg, reg2) ==
    IF tk.pc = "send"
    THEN [tk EXCEPT !.detached = @ \/ (tk.key \in DOMAIN reg /\ tk.key \notin DOMAIN reg2),
                    !.stayed = @ \cap Members(reg2, tk.key)]
    ELSE tk

ObserveAll(tks, reg, reg2) == [h \in Handlers |-> Observe(tks[h], reg, reg2)]

\* a consumer that leaves the message unacknowledged when the handler returns
FinishedUnacknowledged(tk, reg, raised) ==
    [task |-> [tk EXCEPT !.pc = "done", !.raised = @ \/ raised, !.ts = 0, !.stage = None, !.key = None,
                         !.idx = 0, !.cur = 0, !.disconnected = <<>>, !.detached = FALSE,
                         !.tried = {}, !.failed = {}, !.stayed = {}],
     reg |-> reg]

\* the handler returns (or its except clause has logged the error) and
\* message.process() acknowledges the message
Finished(tk, reg, raised) ==
    [task |-> [tk EXCEPT !.pc = "done", !.acked = TRUE, !.raised = @ \/ raised, !.ts = 0, !.stage = None, !.key = None,
                         !.idx = 0, !.cur = 0, !.disconnected = <<>>, !.detached = FALSE,
                         !.tried = {}, !.failed = {}, !.stayed = {}],
     reg |-> reg]

\* an except clause that names json.JSONDecodeError only
CaughtIfDecodeError(kind) == kind = "JSONDecodeError"

\* the except clauses on the way out of process_message: Exception in
\* handle_script_ready (main.py:330), json.JSONDecodeError and Exception in
\* process_message (message_broker.py:134, 137); every kind raised here is an Exception
Caught(kind) == kind \in {"JSONDecodeError", "UnicodeDecodeError", "AttributeError", "KeyError"}

\* an exception of this kind is raised in the handler: an except clause logs it
\* and message.process() acknowledges, or it leaves process_message and
\* message.process() rejects the message
Raise(tk, reg, kind) ==
    IF Caught(kind) THEN Finished(tk, reg, TRUE)
    ELSE [task |-> [Finished(tk, reg, TRUE).task EXCEPT !.pc = "crashed", !.acked = FALSE], reg |-> reg]

\* the loop is exhausted: prune, lines 82-89
EndPublish(tk, reg) ==
    LET c == Cleanup(reg, tk.key, tk.disconnected)
    IN  [task |-> [tk EXCEPT !.missed = @ \cup (tk.stayed \ tk.tried),
                             !.unpruned = @ \cup (tk.failed \cap Members(c.reg, tk.key))],
         reg |-> c.reg,
         raised |-> c.raised]

\* the loop takes its next websocket and awaits send_json
TakeNext(tk, reg) ==
    LET ws == IterList(tk, reg)[tk.idx + 1]
    IN  [task |-> [tk EXCEPT !.pc = "send", !.cur = ws, !.idx = @ + 1, !.tried = @ \cup {ws},
                             !.resent = @ \/ ws \in tk.tried],
         reg |-> reg]

\* lines 306-313: ws_data
WsData(n) ==
    [type |-> "job_complete", job_id |-> n.job_id, script_id |-> n.job_id,
     script_text |-> n.script_text, audio_url |-> n.audio_url, image_urls |-> n.image_urls]

\* lines 321-327: collection_data
CollectionData(n) ==
    [type |-> "script_generated", collection_id |-> n.collection_id, script_id |-> n.job_id,
     status |-> "completed", progress |-> "#100"]

\* lines 169-174: the message of an event that names no job
CollectionOnlyData(collection_id) ==
    [type |-> "script_generated", collection_id |-> collection_id,
     status |-> "completed", progress |-> "#100"]

\* the message the handler passes to the publish of this stage
MessageOf(tk, stage) ==
    IF stage = "job" THEN WsData(Normalize(Event(tk)))
    ELSE IF Truthy(JobIdOf(tk)) THEN CollectionData(Normalize(Event(tk)))
    ELSE CollectionOnlyData(CollectionIdOf(tk))

\* the messages of the task's publishes, in the order of tk.pubs: the job's
\* first when the event names a job
MessagesOf(tk) ==
    [k \in 1..Len(tk.pubs) |-> MessageOf(tk, IF Truthy(JobIdOf(tk)) /\ k = 1 THEN "job" ELSE "collection")]

StartLoop(tk, reg, stage, key) ==
    [tk EXCEPT !.stage = stage, !.key = key, !.idx = 0, !.cur = 0, !.disconnected = <<>>,
               !.detached = FALSE, !.pubs = Append(@, key),
               !.tried = {}, !.failed = {}, !.stayed = Members(reg, key)]

\* send_collection_update(collection_id, ...), the handler's last call
CollectionLoop(tk, reg) ==
    IF tk.idx < Len(IterList(tk, reg)) THEN TakeNext(tk, reg)
    ELSE LET e == EndPublish(tk, reg)
         IN  IF e.raised THEN Raise(e.task, e.reg, "KeyError") ELSE Finished(e.task, e.reg, FALSE)

SendCollectionUpdate(tk, reg) ==
    LET key == "collection:" \o CollectionIdOf(tk)
        tk1 == StartLoop(tk, reg, "collection", key)
    IN  IF TopicPresent(reg, key) THEN CollectionLoop(tk1, reg) ELSE Finished(tk1, reg, FALSE)

\* lines 318-333: after send_job_update returned or raised
AfterJobUpdate(tk, reg, raised) ==
    IF raised THEN Raise(tk, reg, "KeyError")
    ELSE IF Truthy(CollectionIdOf(tk)) THEN SendCollectionUpdate(tk, reg)
    ELSE Finished(tk, reg, FALSE)

\* send_job_update(job_id, ws_data)
JobLoop(tk, reg) ==
    IF tk.idx < Len(IterList(tk, reg)) THEN TakeNext(tk, reg)
    ELSE LET e == EndPublish(tk, reg) IN AfterJobUpdate(e.task, e.reg, e.raised)

SendJobUpdate(tk, reg) ==
    LET key == "job:" \o JobIdOf(tk)
        tk1 == StartLoop(tk, reg, "job", key)
    IN  IF TopicPresent(reg, key) THEN JobLoop(tk1, reg) ELSE AfterJobUpdate(tk1, reg, FALSE)

\* a handler bound by a lock that another handler holds across its sends
RunnableUnlessSending(tks, h) == \A g \in Handlers \ {h} : tks[g].pc # "send"

\* process_message and handle_script_ready take no lock and wait for no other
\* message's task: a handler's next step never depends on where another handler is
Runnable(tks, h) == TRUE

\* ------------------------------------------------------------ history
InFlight(tk) == tk.pc \notin {"idle", "done"}

\* a message starts being processed by handler h
RedeliveryOnDeliver(r, e, h) ==
    IF \E g \in Handlers \ {h} : InFlight(tasks[g]) THEN NoRedelivery
    ELSE IF r.ev = e /\ r.n = 1 THEN r
    ELSE [ev |-> e, n |-> 0, post |-> <<>>]

\* the processing of tk's message finished, leaving the store js
RedeliveryOnDone(r, tk, js) ==
    IF r.ev # 0 /\ r.ev = tk.ev
    THEN [ev |-> r.ev, n |-> r.n + 1, post |-> IF r.n = 0 THEN js ELSE r.post]
    ELSE r

RedeliveryStep(r, old, new, js) ==
    IF old.pc # "done" /\ new.pc = "done" THEN RedeliveryOnDone(r, new, js) ELSE r

\* a publish is named by its message's delivery number and its place among
\* the publishes of that message
PublishId(tk, k) == <<tk.seq, k>>

\* a send_json scheduled as a task of its own: _send_update returns without it
PublishReturnedAtOnce(tk) == TRUE

\* line 74, await websocket.send_json(message): _send_update has not returned
\* while one of its sends is awaited
PublishReturned(tk) == tk.pc # "send"

\* the publishes of the task that have returned
ReturnedOf(tk) ==
    {PublishId(tk, k) : k \in {j \in 1..Len(tk.pubs) : j < Len(tk.pubs) \/ PublishReturned(tk)}}

\* one coroutine step from old to new; received: the awaited send_json returned
TraceStep(tr, old, new, received) ==
    IF ~tr.on THEN tr
    ELSE LET first == IF new.seq = old.seq THEN Len(old.pubs) + 1 ELSE 1
             fresh == first..Len(new.pubs)
         IN  [on |-> TRUE,
              inbox |-> IF received
                        THEN [tr.inbox EXCEPT ![old.cur] = Append(@, PublishId(old, Len(old.pubs)))]
                        ELSE tr.inbox,
              started |-> Merge(tr.started,
                                [p \in {PublishId(new, k) : k \in fresh} |->
                                    [key |-> new.pubs[p[2]],
                                     after |-> tr.completed \cup {PublishId(new, j) : j \in 1..(p[2] - 1)}]]),
              completed |-> tr.completed \cup ReturnedOf(new)]

\* ------------------------------------------------------------- actions
\* websocket_endpoint: ws_manager.connect(websocket, job_id, collection_id)
Connect(w, sub) ==
    /\ sockets[w].st = "new"
    /\ \A v \in Sockets : sockets[v].st = "new" => w <= v
    /\ LET key == ConnectionKey(sub.job_id, sub.collection_id)
           reg == RegistryConnect(active_connections, w, key)
       IN  /\ active_connections' = reg
           /\ tasks' = ObserveAll(tasks, active_connections, reg)
           /\ bcast' = Observe(bcast, active_connections, reg)
    /\ sockets' = [sockets EXCEPT ![w] = [st |-> "open", job_id |-> sub.job_id,
                                          collection_id |-> sub.collection_id]]
    /\ UNCHANGED <<jobs, clock, deliveries, lastReconcile, redelivery, callbacks, statusCall, trace>>

\* websocket_endpoint: WebSocketDisconnect, ws_manager.disconnect(websocket, job_id, collection_id)
Disconnect(w) ==
    /\ sockets[w].st = "open"
    /\ LET key == ConnectionKey(sockets[w].job_id, sockets[w].collection_id)
           reg == RegistryDisconnect(active_connections, w, key)
       IN  /\ active_connections' = reg
           /\ tasks' = ObserveAll(tasks, active_connections, reg)
           /\ bcast' = Observe(bcast, active_connections, reg)
    /\ sockets' = [sockets EXCEPT ![w] = [st |-> "closed", job_id |-> None, collection_id |-> None]]
    /\ UNCHANGED <<jobs, clock, deliveries, lastReconcile, redelivery, callbacks, statusCall, trace>>

\* a coroutine step of handler h that leaves task new and registry reg
HandlerStep(h, new, reg) ==
    /\ tasks' = [ObserveAll(tasks, active_connections, reg) EXCEPT ![h] = new]
    /\ bcast' = Observe(bcast, active_connections, reg)
    /\ active_connections' = reg

\* ------------------------------------------------- callback dispatch
\* the default callback the lifespan registers before consuming (main.py:350)
DefaultCallback == "handle_script_ready"

\* the keys callers of register_callback use
CallbackKeys == {"abc-123-uuid", "abc", "abc-123-uuid-v2"}

\* lines 77-97: the identifier process_message resolves from the body
BrokerJobId(body) ==
    LET script_data == DictGetOr(body, "script", EmptyDict)
        a == IF IsDict(script_data) THEN DictGet(script_data, "_id") ELSE None
        b == IF Truthy(a) THEN a ELSE DictGet(body, "script_id")
    IN  IF Truthy(b) THEN b ELSE DictGet(body, "collection_id")

\* registered_id in job_id or job_id in registered_id
PartialMatch(registered_id, job_id) == Contains(job_id, registered_id) \/ Contains(registered_id, job_id)

\* a lookup that searches for a partial match before the exact one
InvokedCallbacksPartialFirst(cbs, job_id) ==
    LET matches == {i \in 1..Len(cbs) : IsStr(job_id) /\ PartialMatch(cbs[i], job_id)}
    IN  IF ~Truthy(job_id) \/ matches = {} THEN <<DefaultCallback>>
        ELSE << cbs[CHOOSE i \in matches : \A j \in matches : i <= j] >>

\* lines 99-132: the callbacks process_message awaits, in order; cbs are the
\* keys of self.callbacks in the dictionary's (insertion) order
InvokedCallbacks(cbs, job_id) ==
    LET exact == {i \in 1..Len(cbs) : cbs[i] = job_id}
        matches == {i \in 1..Len(cbs) : IsStr(job_id) /\ PartialMatch(cbs[i], job_id)}
    IN  IF ~Truthy(job_id) THEN <<DefaultCallback>>
        ELSE IF exact # {} THEN <<job_id>>
        ELSE IF matches # {} THEN << cbs[CHOOSE i \in matches : \A j \in matches : i <= j] >>
        ELSE <<DefaultCallback>>

\* handle_script_ready(data) up to its first await
StartHandler(tk, data, reg) ==
    IF ~Truthy(ResolveJobId(data))
    THEN IF Truthy(ExtractCollectionId(data))
         THEN SendCollectionUpdate(tk, reg)
         ELSE Finished(tk, reg, FALSE)
    ELSE IF Normalize(data).raises
         THEN Raise(tk, reg, "AttributeError")
         ELSE [task |-> [tk EXCEPT !.pc = "get_job_id"], reg |-> reg]

\* process_message up to the first await of handle_script_ready
DeliverWithin(h, e, limit) ==
    /\ ~InFlight(tasks[h])
    /\ Runnable(tasks, h)
    /\ \A g \in Handlers : ~InFlight(tasks[g]) => h <= g
    /\ deliveries < limit
    /\ deliveries' = deliveries + 1
    /\ LET tk == [IdleTask EXCEPT !.ev = e, !.seq = IF trace.on THEN deliveries + 1 ELSE 0,
                                  !.called = InvokedCallbacks(callbacks, BrokerJobId(Payloads[e]))]
           r == IF tk.called = <<DefaultCallback>>
                THEN StartHandler(tk, Payloads[e], active_connections)
                ELSE Finished(tk, active_connections, FALSE)
       IN  /\ HandlerStep(h, r.task, r.reg)
           /\ redelivery' = RedeliveryStep(RedeliveryOnDeliver(redelivery, e, h), tasks[h], r.task, jobs)
           /\ trace' = TraceStep(trace, tasks[h], r.task, FALSE)
    /\ UNCHANGED <<jobs, clock, sockets, lastReconcile, callbacks, statusCall>>

Deliver(h, e) == DeliverWithin(h, e, MaxDeliveries)

\* get_job: one find_one, then the next strategy or the handler's branch on the result
GetAttempt(h) ==
    /\ tasks[h].pc \in {"get_job_id", "get_oid", "get_uuid", "get_id"}
    /\ Runnable(tasks, h)
    /\ LET tk == tasks[h]
           found == FindBy(jobs, GetField(tk.pc), JobIdOf(tk)) # 0
           nxt == GetNext(tk.pc, JobIdOf(tk))
       IN  IF found \/ nxt = "miss"
           THEN /\ tasks' = [tasks EXCEPT ![h] = [tk EXCEPT !.pc = IF found THEN "upd_job_id" ELSE "create",
                                                            !.ts = clock + 1]]
                /\ clock' = clock + 1
           ELSE /\ tasks' = [tasks EXCEPT ![h] = [tk EXCEPT !.pc = nxt]]
                /\ UNCHANGED clock
    /\ UNCHANGED <<jobs, active_connections, sockets, deliveries, lastReconcile, redelivery,
                   callbacks, statusCall, bcast, trace>>

\* create_job(job_data): insert_one, then the call of update_job_from_script_ready
CreateJob(h) ==
    /\ tasks[h].pc = "create"
    /\ Runnable(tasks, h)
    /\ Len(jobs) < MaxJobs
    /\ LET tk == tasks[h]
       IN  /\ jobs' = Append(jobs, CreateJobDoc(HandlerJobData(Normalize(Event(tk))), Len(jobs) + 1, tk.ts))
           /\ tasks' = [tasks EXCEPT ![h] = [tk EXCEPT !.pc = "upd_job_id", !.ts = clock + 1,
                                                       !.created = TRUE, !.wrote = TRUE]]
    /\ clock' = clock + 1
    /\ lastReconcile' = NoReconcile
    /\ UNCHANGED <<active_connections, sockets, deliveries, redelivery, callbacks, statusCall, bcast, trace>>

\* update_job_from_script_ready: one update_one, then return or the next strategy
UpdateAttempt(h) ==
    /\ tasks[h].pc \in {"upd_job_id", "upd_oid", "upd_uuid", "upd_id", "upd_coll"}
    /\ Runnable(tasks, h)
    /\ LET tk == tasks[h]
           data == UpdateData(Normalize(Event(tk)), tk.ts)
           x == IF tk.pc = "upd_coll" THEN ReconcileCollectionId(data) ELSE JobIdOf(tk)
           i == FindBy(jobs, ReconcileField(tk.pc), x)
           nxt == ReconcileNext(tk.pc, JobIdOf(tk), data)
       IN  IF i # 0
           THEN /\ jobs' = [jobs EXCEPT ![i] = ReconcileDoc(jobs[i], data, tk.ts)]
                /\ tasks' = [tasks EXCEPT ![h] = [tk EXCEPT !.pc = "fanout", !.ts = 0, !.wrote = TRUE]]
                /\ lastReconcile' = [ev |-> tk.ev, doc |-> i,
                                     n |-> IF lastReconcile.ev = tk.ev /\ lastReconcile.doc = i
                                           THEN lastReconcile.n + 1 ELSE 1]
           ELSE /\ tasks' = [tasks EXCEPT ![h] = IF nxt = "miss"
                                                  THEN [tk EXCEPT !.pc = "fanout", !.ts = 0]
                                                  ELSE [tk EXCEPT !.pc = nxt]]
                /\ UNCHANGED <<jobs, lastReconcile>>
    /\ UNCHANGED <<clock, active_connections, sockets, deliveries, redelivery,
                   callbacks, statusCall, bcast, trace>>

\* handle_script_ready, lines 305-316: build ws_data and call send_job_update
FanOut(h) ==
    /\ tasks[h].pc = "fanout"
    /\ Runnable(tasks, h)
    /\ LET r == SendJobUpdate(tasks[h], active_connections)
       IN  /\ HandlerStep(h, r.task, r.reg)
           /\ redelivery' = RedeliveryStep(redelivery, tasks[h], r.task, jobs)
           /\ trace' = TraceStep(trace, tasks[h], r.task, FALSE)
    /\ UNCHANGED <<jobs, clock, sockets, deliveries, lastReconcile, callbacks, statusCall>>

\* _send_update: await websocket.send_json(message) returns (ok) or raises,
\* and the loop goes on to its next await or to its end
SendComplete(h, ok) ==
    /\ tasks[h].pc = "send"
    /\ LET tk == tasks[h]
           tk1 == IF ok THEN tk
                  ELSE [tk EXCEPT !.disconnected = Append(@, tk.idx - 1), !.failed = @ \cup {tk.cur},
                                  !.sendFailed = TRUE]
           r == IF tk.stage = "job" THEN JobLoop(tk1, active_connections)
                ELSE CollectionLoop(tk1, active_connections)
       IN  /\ HandlerStep(h, r.task, r.reg)
           /\ redelivery' = RedeliveryStep(redelivery, tk, r.task, jobs)
           /\ trace' = TraceStep(trace, tk, r.task, ok)
    /\ UNCHANGED <<jobs, clock, sockets, deliveries, lastReconcile, callbacks, statusCall>>

\* register_callback(job_id, callback): a new key goes to the end of the dictionary
RegisterCallback(k) ==
    /\ ~InList(callbacks, k)
    /\ Len(callbacks) < MaxCallbacks
    /\ callbacks' = Append(callbacks, k)
    /\ UNCHANGED <<jobs, clock, active_connections, sockets, tasks, deliveries, lastReconcile,
                   redelivery, statusCall, bcast, trace>>

\* unregister_callback(job_id) of a registered key
UnregisterCallback(k) ==
    /\ InList(callbacks, k)
    /\ callbacks' = RemoveFirst(callbacks, k)
    /\ UNCHANGED <<jobs, clock, active_connections, sockets, tasks, deliveries, lastReconcile,
                   redelivery, statusCall, bcast, trace>>

\* ------------------------------------- update_job_status as a coroutine
FAILED == "FAILED"
SCRIPT_GENERATED == "SCRIPT_GENERATED"

\* the arguments callers pass: a status alone, and a status with data
StatusArguments ==
    { [job_id |-> "abc-123-uuid", status |-> FAILED, data |-> EmptyDict],
      [job_id |-> "abc-123-uuid", status |-> SCRIPT_GENERATED, data |-> [script_text |-> "edited"]] }

\* lines 191-198: update_doc
StatusDoc(c) == Merge([status |-> c.status, updated_at |-> c.ts], c.data)

\* an update that sets the status and leaves the rest of update_doc to a later write
StatusWriteStatusOnly(doc, update_doc) == Merge(doc, [status |-> update_doc.status])

\* the matched document after update_one(filter, {"$set": update_doc})
StatusWrite(doc, update_doc) == Merge(doc, update_doc)

StatusField(strategy) ==
    CASE strategy = "st_job_id" -> "job_id"
      [] strategy = "st_oid" -> "_id"
      [] strategy = "st_id" -> "id"

\* the strategy tried after a miss; ObjectId(job_id) raising skips the _id lookup
StatusNext(strategy, job_id) ==
    CASE strategy = "st_job_id" -> (IF ValidObjectId(job_id) THEN "st_oid" ELSE "st_id")
      [] strategy = "st_oid" -> "st_id"
      [] strategy = "st_id" -> "done"

\* update_job_status(job_id, status, data) up to its first await
UpdateJobStatus(a) ==
    /\ statusCall.pc \in {"idle", "done"}
    /\ statusCall.n < MaxStatusCalls
    /\ statusCall' = [IdleStatusCall EXCEPT !.op = "update_job_status", !.pc = "st_job_id",
                                            !.job_id = a.job_id, !.status = a.status, !.data = a.data,
                                            !.ts = clock + 1, !.n = statusCall.n + 1]
    /\ clock' = clock + 1
    /\ UNCHANGED <<jobs, active_connections, sockets, tasks, deliveries, lastReconcile, redelivery,
                   callbacks, bcast, trace>>

\* lines 226-231: the function logs the outcome and ends without a return
\* statement, so the caller gets None whether or not a document matched
StatusReturn(matched) == << None >>

\* update_job_status: one update_one, then return or the next strategy
StatusAttempt ==
    /\ statusCall.pc \in {"st_job_id", "st_oid", "st_id"}
    /\ LET c == statusCall
           i == FindBy(jobs, StatusField(c.pc), c.job_id)
           nxt == StatusNext(c.pc, c.job_id)
       IN  IF i # 0
           THEN /\ jobs' = [jobs EXCEPT ![i] = StatusWrite(jobs[i], StatusDoc(c))]
                /\ statusCall' = [c EXCEPT !.pc = "done", !.wrote = TRUE, !.doc = i,
                                           !.raced = jobs[i].updated_at > c.ts,
                                           !.ret = StatusReturn(TRUE)]
                /\ lastReconcile' = NoReconcile
           ELSE /\ statusCall' = [c EXCEPT !.pc = nxt,
                                           !.ret = IF nxt = "done" THEN StatusReturn(FALSE) ELSE @]
                /\ UNCHANGED <<jobs, lastReconcile>>
    /\ UNCHANGED <<clock, active_connections, sockets, tasks, deliveries, redelivery,
                   callbacks, bcast, trace>>

\* ------------------- update_job_from_script_ready called on its own
\* a jobs collection with documents of earlier versions: some are reachable by
\* a uuid or id field, one has the storage key of another as its job_id, one
\* has been reconciled
LegacyJob(n, fields) ==
    Merge([_id |-> NewObjectId(n), title |-> "Generated Script", status |-> PENDING,
           created_at |-> 0, updated_at |-> 0], fields)

LegacyJobs ==
    << LegacyJob(1, [job_id |-> "job-a", uuid |-> "job-b", collection_id |-> "c1", status |-> READY]),
       LegacyJob(2, [job_id |-> "job-b", id |-> "job-a", uuid |-> "only-u", collection_id |-> "c1"]),
       LegacyJob(3, [job_id |-> NewObjectId(1), id |-> "only-i", collection_id |-> "c2"]),
       LegacyJob(4, [job_id |-> "job-d", id |-> "legacy", collection_id |-> "c2"]),
       LegacyJob(5, [job_id |-> "job-e", uuid |-> "legacy", collection_id |-> "c3"]) >>

\* the identifiers callers look jobs up by
LookupIds == {"job-a", "job-b", NewObjectId(1), NewObjectId(4), "only-u", "only-i", "legacy", "nope"}

\* the data callers of update_job_from_script_ready pass: a script with a
\* collection_id, one without, and no script but a top-level collection_id,
\* of a collection that has jobs and of one that has none
ReconcileData ==
    { [script |-> [_id |-> "x", collection_id |-> "c3", scenes |-> <<>>, metadata |-> EmptyDict]],
      [script |-> [_id |-> "x", collection_id |-> None, scenes |-> <<>>, metadata |-> EmptyDict],
       image_data |-> [script_id |-> "x", scene_images |-> <<>>]],
      [collection_id |-> "c1", voice_data |-> [script_id |-> "x", scene_voiceovers |-> <<>>]],
      [collection_id |-> "c9"] }

\* an update_one with upsert: a document is inserted when none matches
ReconcileMissCreating(js, job_id, data, now) ==
    Append(js, Merge([job_id |-> job_id], ReconcileSet(data, now)))

\* lines 380-381: no strategy matched; the error is logged and nothing is written
ReconcileMiss(js, job_id, data, now) == js

\* update_job_from_script_ready(job_id, data) up to its first await
ReconcileCall(job_id, data) ==
    /\ statusCall.pc \in {"idle", "done"}
    /\ statusCall.n < MaxStatusCalls
    /\ statusCall' = [IdleStatusCall EXCEPT !.op = "update_job_from_script_ready", !.pc = "upd_job_id",
                                            !.job_id = job_id, !.data = data,
                                            !.ts = clock + 1, !.n = statusCall.n + 1]
    /\ clock' = clock + 1
    /\ UNCHANGED <<jobs, active_connections, sockets, tasks, deliveries, lastReconcile, redelivery,
                   callbacks, bcast, trace>>

\* update_job_from_script_ready: one update_one, then return or the next strategy
ReconcileAttempt ==
    /\ statusCall.op = "update_job_from_script_ready"
    /\ statusCall.pc \in {"upd_job_id", "upd_oid", "upd_uuid", "upd_id", "upd_coll"}
    /\ LET c == statusCall
           x == IF c.pc = "upd_coll" THEN ReconcileCollectionId(c.data) ELSE c.job_id
           i == FindBy(jobs, ReconcileField(c.pc), x)
           nxt == ReconcileNext(c.pc, c.job_id, c.data)
       IN  IF i # 0
           THEN /\ jobs' = [jobs EXCEPT ![i] = ReconcileDoc(jobs[i], c.data, c.ts)]
                /\ statusCall' = [c EXCEPT !.pc = "done", !.wrote = TRUE, !.doc = i,
                                           !.raced = jobs[i].updated_at > c.ts]
           ELSE IF nxt = "miss"
                THEN /\ jobs' = ReconcileMiss(jobs, c.job_id, c.data, c.ts)
                     /\ statusCall' = [c EXCEPT !.pc = "done"]
                ELSE /\ jobs' = jobs
                     /\ statusCall' = [c EXCEPT !.pc = nxt]
    /\ lastReconcile' = NoReconcile
    /\ UNCHANGED <<clock, active_connections, sockets, tasks, deliveries, redelivery,
                   callbacks, bcast, trace>>

\* ------------------------------------------- get_job called on its own
\* get_job(job_id) up to its first await
GetJobCall(job_id) ==
    /\ statusCall.pc \in {"idle", "done"}
    /\ statusCall.n < MaxStatusCalls
    /\ statusCall' = [IdleStatusCall EXCEPT !.op = "get_job", !.pc = "get_job_id", !.job_id = job_id,
                                            !.n = statusCall.n + 1]
    /\ UNCHANGED <<jobs, clock, active_connections, sockets, tasks, deliveries, lastReconcile,
                   redelivery, callbacks, bcast, trace>>

\* get_job: one find_one, then return the converted document (ret holds it),
\* return None (ret is empty), or go on
GetJobAttempt ==
    /\ statusCall.op = "get_job"
    /\ statusCall.pc \in {"get_job_id", "get_oid", "get_uuid", "get_id"}
    /\ LET c == statusCall
           i == FindBy(jobs, GetField(c.pc), c.job_id)
           nxt == GetNext(c.pc, c.job_id)
       IN  statusCall' = IF i # 0 THEN [c EXCEPT !.pc = "done", !.doc = i, !.ret = << GetJobResult(jobs[i]) >>]
                         ELSE IF nxt = "miss" THEN [c EXCEPT !.pc = "done", !.ret = <<>>]
                         ELSE [c EXCEPT !.pc = nxt]
    /\ UNCHANGED <<jobs, clock, active_connections, sockets, tasks, deliveries, lastReconcile,
                   redelivery, callbacks, bcast, trace>>

\* ---------------------------------------- create_job called on its own
\* the job_data callers pass: all of job_id, script_id and id with a status of
\* their own; an empty job_id; no job_id; only an id; no identifier at all
JobData ==
    { [job_id |-> "j1", script_id |-> "s1", id |-> "i1", status |-> READY, title |-> "t"],
      [job_id |-> "", script_id |-> "s1", id |-> "i1"],
      [script_id |-> "s1", id |-> "i1", status |-> FAILED],
      [job_id |-> None, id |-> "i1"],
      [title |-> "t", status |-> READY],
      [job_id |-> None, script_id |-> "", title |-> "t"] }

\* create_job(job_data) up to its await: the document is built
CreateJobCall(job_data) ==
    /\ statusCall.pc \in {"idle", "done"}
    /\ statusCall.n < MaxStatusCalls
    /\ statusCall' = [IdleStatusCall EXCEPT !.op = "create_job", !.pc = "insert", !.data = job_data,
                                            !.job_id = CreateJobId(job_data, Len(jobs) + 1),
                                            !.ts = clock + 1, !.n = statusCall.n + 1]
    /\ clock' = clock + 1
    /\ UNCHANGED <<jobs, active_connections, sockets, tasks, deliveries, lastReconcile, redelivery,
                   callbacks, bcast, trace>>

\* create_job: insert_one, then return job_id
CreateJobInsert ==
    /\ statusCall.op = "create_job"
    /\ statusCall.pc = "insert"
    /\ LET c == statusCall
           doc == CreateJobDoc(c.data, Len(jobs) + 1, c.ts)
       IN  /\ jobs' = Append(jobs, doc)
           /\ statusCall' = [c EXCEPT !.pc = "done", !.wrote = TRUE, !.doc = Len(jobs) + 1,
                                      !.ret = << doc.job_id >>]
    /\ lastReconcile' = NoReconcile
    /\ UNCHANGED <<clock, active_connections, sockets, tasks, deliveries, redelivery,
                   callbacks, bcast, trace>>

\* ------------------------------------------------------------- faults
\* message bodies that are not JSON documents
RawBodies == {"{not json", "<invalid utf-8>"}

\* a decoder that takes anything for an empty object
DecodeLenient(b) == [raises |-> None, value |-> EmptyDict]

\* line 73, json.loads(message.body.decode()), of a body of RawBodies
Decode(b) ==
    IF b = "<invalid utf-8>" THEN [raises |-> "UnicodeDecodeError", value |-> EmptyDict]
    ELSE [raises |-> "JSONDecodeError", value |-> EmptyDict]

\* process_message of a message with body b
ReceiveBody(h, b) ==
    /\ ~InFlight(tasks[h])
    /\ Runnable(tasks, h)
    /\ \A g \in Handlers : ~InFlight(tasks[g]) => h <= g
    /\ deliveries < MaxMessages
    /\ deliveries' = deliveries + 1
    /\ LET tk == [IdleTask EXCEPT !.body = b, !.seq = IF trace.on THEN deliveries + 1 ELSE 0]
           d == Decode(b)
           r == IF d.raises # None THEN Raise(tk, active_connections, d.raises)
                ELSE StartHandler([tk EXCEPT !.called = InvokedCallbacks(callbacks, BrokerJobId(d.value))],
                                  d.value, active_connections)
       IN  /\ HandlerStep(h, r.task, r.reg)
           /\ redelivery' = RedeliveryStep(RedeliveryOnDeliver(redelivery, 0, h), tasks[h], r.task, jobs)
           /\ trace' = TraceStep(trace, tasks[h], r.task, FALSE)
    /\ UNCHANGED <<jobs, clock, sockets, lastReconcile, callbacks, statusCall>>

\* the awaited store call of handler h raises: get_job logs it and returns
\* None (database.py:284-286), so the handler goes on to create the job;
\* create_job and update_job_from_script_ready raise to the handler, whose
\* except clauses (main.py:295, 302) log it and go on to the fan-out
StoreError(h) ==
    /\ tasks[h].pc \in {"get_job_id", "get_oid", "get_uuid", "get_id", "create",
                        "upd_job_id", "upd_oid", "upd_uuid", "upd_id", "upd_coll"}
    /\ Runnable(tasks, h)
    /\ ~tasks[h].storeError
    /\ LET tk == tasks[h]
       IN  IF tk.pc \in {"get_job_id", "get_oid", "get_uuid", "get_id"}
           THEN /\ tasks' = [tasks EXCEPT ![h] = [tk EXCEPT !.pc = "create", !.ts = clock + 1,
                                                            !.storeError = TRUE]]
                /\ clock' = clock + 1
           ELSE /\ tasks' = [tasks EXCEPT ![h] = [tk EXCEPT !.pc = "fanout", !.ts = 0,
                                                            !.storeError = TRUE]]
                /\ UNCHANGED clock
    /\ UNCHANGED <<jobs, active_connections, sockets, deliveries, lastReconcile, redelivery,
                   callbacks, statusCall, bcast, trace>>

\* --------------------------------- websocket_endpoint as a coroutine
\* what the endpoint itself sends a connection, beside the publishes
JobStatusMessage == <<0, 0>>
JobCompleteSnapshot == <<0, 1>>

\* lines 817-824: the snapshot of a READY job reads these keys of the job
SnapshotCompleteRaises(job) ==
    job.status = READY /\ ~({"script_text", "audio_url", "image_urls"} \subseteq DOMAIN job)

\* websocket_endpoint, line 803: ws_manager.connect has returned, the websocket
\* is registered, and the endpoint goes on to read its snapshot
Subscribe(w, sub) ==
    /\ sockets[w].st = "new"
    /\ \A v \in Sockets : sockets[v].st = "new" => w <= v
    /\ LET key == ConnectionKey(sub.job_id, sub.collection_id)
           reg == RegistryConnect(active_connections, w, key)
       IN  /\ active_connections' = reg
           /\ tasks' = ObserveAll(tasks, active_connections, reg)
           /\ bcast' = Observe(bcast, active_connections, reg)
    /\ sockets' = [sockets EXCEPT ![w] = [st |-> IF Truthy(sub.job_id) THEN "snapshot" ELSE "open",
                                          job_id |-> sub.job_id, collection_id |-> sub.collection_id]]
    /\ UNCHANGED <<jobs, clock, deliveries, lastReconcile, redelivery, callbacks, statusCall, trace>>

\* websocket_endpoint, lines 807-824: get_job has returned; job_status is sent
\* when the job exists, then job_complete when it is READY; an exception
\* reaches the outer except clause, which closes the websocket without
\* ws_manager.disconnect
Snapshot(w) ==
    /\ sockets[w].st = "snapshot"
    /\ LET job == GetJob(jobs, sockets[w].job_id)
           raises == job # <<>> /\ SnapshotCompleteRaises(job[1])
           sent == IF job = <<>> THEN <<>>
                   ELSE IF job[1].status = READY /\ ~raises
                        THEN <<JobStatusMessage, JobCompleteSnapshot>>
                        ELSE <<JobStatusMessage>>
       IN  /\ sockets' = [sockets EXCEPT ![w].st = IF raises THEN "aborted" ELSE "open"]
           /\ trace' = IF trace.on THEN [trace EXCEPT !.inbox[w] = @ \o sent] ELSE trace
    /\ UNCHANGED <<jobs, clock, active_connections, tasks, deliveries, lastReconcile, redelivery,
                   callbacks, statusCall, bcast>>

\* ---------------------------------------------- broadcast as a coroutine
RECURSIVE BroadcastLoop(_, _)
RECURSIVE BroadcastNextKey(_, _)

\* broadcast, lines 98-113: the loop over one key's list, then the pruning,
\* which is that of _send_update
BroadcastLoop(b, reg) ==
    IF b.idx < Len(IterList(b, reg)) THEN TakeNext(b, reg)
    ELSE LET e == EndPublish(b, reg)
         IN  IF e.raised THEN Finished(e.task, e.reg, TRUE) ELSE BroadcastNextKey(e.task, e.reg)

\* broadcast, lines 95-98: the next key of the snapshot of the keys; looking
\* up a key that is gone raises KeyError
BroadcastNextKey(b, reg) ==
    IF b.keys = <<>> THEN Finished(b, reg, FALSE)
    ELSE LET key == Head(b.keys)
             b1 == [b EXCEPT !.keys = Tail(@), !.key = key, !.idx = 0, !.cur = 0,
                             !.disconnected = <<>>, !.detached = FALSE,
                             !.tried = {}, !.failed = {}, !.stayed = Members(reg, key)]
         IN  IF key \notin DOMAIN reg THEN Finished(b1, reg, TRUE) ELSE BroadcastLoop(b1, reg)

\* list(self.active_connections.keys()): the keys in the dictionary's order,
\* which the registry, a function, does not record
KeyOrders(reg) ==
    {s \in [1..Cardinality(DOMAIN reg) -> DOMAIN reg] :
        \A i, j \in 1..Cardinality(DOMAIN reg) : s[i] = s[j] => i = j}

BroadcastStep(r) ==
    /\ bcast' = r.task
    /\ active_connections' = r.reg
    /\ tasks' = ObserveAll(tasks, active_connections, r.reg)
    /\ UNCHANGED <<jobs, clock, sockets, deliveries, lastReconcile, redelivery, callbacks, statusCall, trace>>

\* broadcast(message) up to its first await
Broadcast(order) ==
    /\ bcast.pc \in {"idle", "done"}
    /\ bcast.n < MaxBroadcasts
    /\ BroadcastStep(BroadcastNextKey([IdleBroadcast EXCEPT !.keys = order, !.n = bcast.n + 1],
                                      active_connections))

\* broadcast: await websocket.send_json(message) returns (ok) or raises
BroadcastSendComplete(ok) ==
    /\ bcast.pc = "send"
    /\ BroadcastStep(BroadcastLoop(IF ok THEN bcast
                                   ELSE [bcast EXCEPT !.disconnected = Append(@, bcast.idx - 1),
                                                      !.failed = @ \cup {bcast.cur},
                                                      !.sendFailed = TRUE],
                                   active_connections))

Next ==
    \/ \E w \in Sockets, sub \in Subscriptions : Connect(w, sub)
    \/ \E w \in Sockets : Disconnect(w)
    \/ \E h \in Handlers, e \in 1..Len(Events) : Deliver(h, e)
    \/ \E h \in Handlers : GetAttempt(h)
    \/ \E h \in Handlers : CreateJob(h)
    \/ \E h \in Handlers : UpdateAttempt(h)
    \/ \E h \in Handlers : FanOut(h)
    \/ \E h \in Handlers, ok \in BOOLEAN : SendComplete(h, ok)

Spec == Init /\ [][Next]_vars

\* the consumer while no WebSocket client is connected
Redeliver(h, e) == DeliverWithin(h, e, MaxRedeliveries)

NextConsumer ==
    \/ \E h \in Handlers, e \in 1..Len(Events) : Redeliver(h, e)
    \/ \E h \in Handlers : GetAttempt(h)
    \/ \E h \in Handlers : CreateJob(h)
    \/ \E h \in Handlers : UpdateAttempt(h)
    \/ \E h \in Handlers : FanOut(h)

SpecConsumer == Init /\ [][NextConsumer]_vars

\* the registry under subscribe, unsubscribe, publish and broadcast; the
\* publishes are those of the events that name no job, whose handling
\* (lines 164-175) calls send_collection_update and nothing else
RegistryEvents == {e \in 1..Len(Events) : ~Truthy(ResolveJobId(Events[e]))}

Publish(h, e) == DeliverWithin(h, e, MaxPublishes)

NextRegistry ==
    \/ \E w \in Sockets, sub \in Subscriptions : Connect(w, sub)
    \/ \E w \in Sockets : Disconnect(w)
    \/ \E h \in Handlers, e \in RegistryEvents : Publish(h, e)
    \/ \E h \in Handlers, ok \in BOOLEAN : SendComplete(h, ok)
    \/ \E order \in KeyOrders(active_connections) : Broadcast(order)
    \/ \E ok \in BOOLEAN : BroadcastSendComplete(ok)

SpecRegistry == Init /\ [][NextRegistry]_vars

\* the publishes of a topic with their history: which publish returned before
\* which started, and what each connection received in which order
InitOrdering ==
    /\ jobs = <<>>
    /\ clock = 0
    /\ active_connections = EmptyDict
    /\ sockets = [w \in Sockets |-> [st |-> "new", job_id |-> None, collection_id |-> None]]
    /\ tasks = [h \in Handlers |-> IdleTask]
    /\ deliveries = 0
    /\ lastReconcile = NoReconcile
    /\ redelivery = NoRedelivery
    /\ callbacks = <<>>
    /\ statusCall = IdleStatusCall
    /\ bcast = IdleBroadcast
    /\ trace = EmptyTrace

NextOrdering ==
    \/ \E w \in Sockets, sub \in Subscriptions : Connect(w, sub)
    \/ \E w \in Sockets : Disconnect(w)
    \/ \E h \in Handlers, e \in RegistryEvents : Publish(h, e)
    \/ \E h \in Handlers, ok \in BOOLEAN : SendComplete(h, ok)

SpecOrdering == InitOrdering /\ [][NextOrdering]_vars

\* the consumer with undecodable bodies, a malformed event and failing store
\* calls, beside an event that is processed in full, and one WebSocket client
Receive(h, e) == DeliverWithin(h, e, MaxMessages)

FaultEvents == {1, Len(AllEvents)}
FaultSockets == {1}

NextFaults ==
    \/ \E w \in FaultSockets, sub \in Subscriptions : Connect(w, sub)
    \/ \E w \in FaultSockets : Disconnect(w)
    \/ \E h \in Handlers, e \in FaultEvents : Receive(h, e)
    \/ \E h \in Handlers, b \in RawBodies : ReceiveBody(h, b)
    \/ \E h \in Handlers : GetAttempt(h)
    \/ \E h \in Handlers : CreateJob(h)
    \/ \E h \in Handlers : UpdateAttempt(h)
    \/ \E h \in Handlers : StoreError(h)
    \/ \E h \in Handlers : FanOut(h)
    \/ \E h \in Handlers, ok \in BOOLEAN : SendComplete(h, ok)

SpecFaults == Init /\ [][NextFaults]_vars

\* one message at a time from delivery to acknowledgement, with every kind of
\* failure on the way; an awaited call eventually returns or raises, so a
\* handler that can take a step eventually takes one
Acknowledged(h, e) == DeliverWithin(h, e, MaxAcknowledged)

AcknowledgedBody(h, b) == deliveries < MaxAcknowledged /\ ReceiveBody(h, b)

NextAcknowledge ==
    \/ \E w \in FaultSockets, sub \in Subscriptions : Connect(w, sub)
    \/ \E w \in FaultSockets : Disconnect(w)
    \/ \E h \in Handlers, e \in FaultEvents : Acknowledged(h, e)
    \/ \E h \in Handlers, b \in RawBodies : AcknowledgedBody(h, b)
    \/ \E h \in Handlers : GetAttempt(h)
    \/ \E h \in Handlers : CreateJob(h)
    \/ \E h \in Handlers : UpdateAttempt(h)
    \/ \E h \in Handlers : StoreError(h)
    \/ \E h \in Handlers : FanOut(h)
    \/ \E h \in Handlers, ok \in BOOLEAN : SendComplete(h, ok)

\* the coroutine of handler h is at an await whose completion is a step of the model
Awaiting(h) ==
    \/ tasks[h].pc \in {"get_job_id", "get_oid", "get_uuid", "get_id"}
    \/ tasks[h].pc = "create" /\ Len(jobs) < MaxJobs
    \/ tasks[h].pc \in {"upd_job_id", "upd_oid", "upd_uuid", "upd_id", "upd_coll"}
    \/ tasks[h].pc = "fanout"
    \/ tasks[h].pc = "send"

\* the awaited call of handler h returns or raises
Resumed(h) ==
    \/ GetAttempt(h)
    \/ CreateJob(h)
    \/ UpdateAttempt(h)
    \/ StoreError(h)
    \/ FanOut(h)
    \/ \E ok \in BOOLEAN : SendComplete(h, ok)

\* weak fairness of Resumed(h), WF_vars(Resumed(h)), with the enabling
\* condition written as the state predicate Awaiting(h)
HandlerProgress(h) == []<>(~Awaiting(h)) \/ []<><<Resumed(h)>>_vars

SpecAcknowledge == Init /\ [][NextAcknowledge]_vars /\ \A h \in Handlers : HandlerProgress(h)

\* the consumer with one WebSocket client whose sends are awaited while other
\* messages arrive: an event that publishes at once and one that is reconciled
SlowSendEvents == {1, 3}

NextSlowSend ==
    \/ \E w \in FaultSockets, sub \in Subscriptions : Connect(w, sub)
    \/ \E w \in FaultSockets : Disconnect(w)
    \/ \E h \in Handlers, e \in SlowSendEvents : Receive(h, e)
    \/ \E h \in Handlers : GetAttempt(h)
    \/ \E h \in Handlers : CreateJob(h)
    \/ \E h \in Handlers : UpdateAttempt(h)
    \/ \E h \in Handlers : FanOut(h)
    \/ \E h \in Handlers, ok \in BOOLEAN : SendComplete(h, ok)

SpecSlowSend == Init /\ [][NextSlowSend]_vars

\* the consumer routing events of every shape while one WebSocket client
\* connects and disconnects
NextRouting ==
    \/ \E w \in FaultSockets, sub \in Subscriptions : Connect(w, sub)
    \/ \E w \in FaultSockets : Disconnect(w)
    \/ \E h \in Handlers, e \in 1..Len(Events) : Receive(h, e)
    \/ \E h \in Handlers : GetAttempt(h)
    \/ \E h \in Handlers : CreateJob(h)
    \/ \E h \in Handlers : UpdateAttempt(h)
    \/ \E h \in Handlers : FanOut(h)
    \/ \E h \in Handlers, ok \in BOOLEAN : SendComplete(h, ok)

SpecRouting == Init /\ [][NextRouting]_vars

\* the consumer while callbacks are registered and unregistered
Dispatch(h, e) == DeliverWithin(h, e, MaxDispatches)

NextDispatch ==
    \/ \E k \in CallbackKeys : RegisterCallback(k)
    \/ \E k \in CallbackKeys : UnregisterCallback(k)
    \/ \E h \in Handlers, e \in 1..Len(AllEvents) : Dispatch(h, e)
    \/ \E h \in Handlers : GetAttempt(h)
    \/ \E h \in Handlers : CreateJob(h)
    \/ \E h \in Handlers : UpdateAttempt(h)
    \/ \E h \in Handlers : FanOut(h)

SpecDispatch == Init /\ [][NextDispatch]_vars

\* the job store under reconciliations and calls of update_job_status
Reconcile(h, e) == DeliverWithin(h, e, MaxReconciles)

NextStore ==
    \/ \E h \in Handlers, e \in 1..Len(Events) : Reconcile(h, e)
    \/ \E h \in Handlers : GetAttempt(h)
    \/ \E h \in Handlers : CreateJob(h)
    \/ \E h \in Handlers : UpdateAttempt(h)
    \/ \E h \in Handlers : FanOut(h)
    \/ \E a \in StatusArguments : UpdateJobStatus(a)
    \/ StatusAttempt

SpecStore == Init /\ [][NextStore]_vars

\* connect and disconnect with every combination of arguments, and publishes
\* to the collection and general subscribers
TopicPublish(h, e) == DeliverWithin(h, e, MaxTopicPublishes)

NextTopics ==
    \/ \E w \in Sockets, sub \in TopicArguments : Connect(w, sub)
    \/ \E w \in Sockets : Disconnect(w)
    \/ \E h \in Handlers, e \in RegistryEvents : TopicPublish(h, e)
    \/ \E h \in Handlers, ok \in BOOLEAN : SendComplete(h, ok)

SpecTopics == Init /\ [][NextTopics]_vars

\* the handler normalizing events of the producers' shapes and storing the result
NormalizerEvents == (Len(AllEvents) + 1)..Len(Payloads)

Normalized(h, e) == DeliverWithin(h, e, MaxNormalizations)

NextNormalizer ==
    \/ \E h \in Handlers, e \in NormalizerEvents : Normalized(h, e)
    \/ \E h \in Handlers : GetAttempt(h)
    \/ \E h \in Handlers : CreateJob(h)
    \/ \E h \in Handlers : UpdateAttempt(h)
    \/ \E h \in Handlers : FanOut(h)

SpecNormalizer == Init /\ [][NextNormalizer]_vars

\* the job store called directly, on a collection that holds legacy documents
InitStoreApi ==
    /\ jobs = LegacyJobs
    /\ clock = 0
    /\ active_connections = EmptyDict
    /\ sockets = [w \in Sockets |-> [st |-> "new", job_id |-> None, collection_id |-> None]]
    /\ tasks = [h \in Handlers |-> IdleTask]
    /\ deliveries = 0
    /\ lastReconcile = NoReconcile
    /\ redelivery = NoRedelivery
    /\ callbacks = <<>>
    /\ statusCall = IdleStatusCall
    /\ bcast = IdleBroadcast
    /\ trace = NoTrace

NextStoreApi ==
    \/ \E job_id \in LookupIds, data \in ReconcileData : ReconcileCall(job_id, data)
    \/ ReconcileAttempt
    \/ \E job_id \in LookupIds, a \in StatusArguments : UpdateJobStatus([a EXCEPT !.job_id = job_id])
    \/ StatusAttempt
    \/ \E job_id \in LookupIds : GetJobCall(job_id)
    \/ GetJobAttempt
    \/ \E job_data \in JobData : CreateJobCall(job_data)
    \/ CreateJobInsert

SpecStoreApi == InitStoreApi /\ [][NextStoreApi]_vars

\* the gateway with the endpoint's snapshot as a step of its own
Notify(h, e) == DeliverWithin(h, e, MaxNotifications)

NextSubscribe ==
    \/ \E w \in Sockets, sub \in Subscriptions : Subscribe(w, sub)
    \/ \E w \in Sockets : Snapshot(w)
    \/ \E w \in Sockets : Disconnect(w)
    \/ \E h \in Handlers, e \in 1..Len(Events) : Notify(h, e)
    \/ \E h \in Handlers : GetAttempt(h)
    \/ \E h \in Handlers : CreateJob(h)
    \/ \E h \in Handlers : UpdateAttempt(h)
    \/ \E h \in Handlers : FanOut(h)
    \/ \E h \in Handlers, ok \in BOOLEAN : SendComplete(h, ok)

SpecSubscribe == InitOrdering /\ [][NextSubscribe]_vars

TypeOK ==
    /\ Len(jobs) <= MaxJobs
    /\ clock \in 0..(2 * MaxRedeliveries)
    /\ deliveries \in 0..MaxRedeliveries
    /\ \A h \in Handlers : tasks[h].pc \in {"idle", "get_job_id", "get_oid", "get_uuid", "get_id",
                                            "create", "upd_job_id", "upd_oid", "upd_uuid", "upd_id",
                                            "upd_coll", "fanout", "send", "done"}

\* -------------------------------------------------------------- claims
Done(h) == tasks[h].pc = "done"

\* an absent or empty value of an event field
Blank(x) == x \in {None, "", "#0"}

\* the event names no job: neither script._id nor a top-level script_id
NamesNoJob(data) ==
    /\ Blank(DictGet(DictGetOr(data, "script", EmptyDict), "_id"))
    /\ Blank(DictGet(data, "script_id"))

\* the event names no collection: neither script.collection_id nor a top-level collection_id
NamesNoCollection(data) ==
    /\ Blank(DictGet(DictGetOr(data, "script", EmptyDict), "collection_id"))
    /\ Blank(DictGet(data, "collection_id"))

WithoutUpdatedAt(js) == [i \in 1..Len(js) |-> DelKey(js[i], "updated_at")]

RecordsOf(js, job_id) == {i \in 1..Len(js) : js[i].job_id = job_id}

\* C1: when a handler has processed an event with non-empty script text whose
\* job_id matched no record, so that it created the record, get(job_id) returns
\* a record with status READY and a non-empty script_text.
C1_CreatedJobIsReadyWithText ==
    \A h \in Handlers :
        (Done(h) /\ tasks[h].created /\ Truthy(Normalize(Event(tasks[h])).script_text))
        => LET g == GetJob(jobs, JobIdOf(tasks[h]))
           IN  /\ g # <<>>
               /\ g[1].status = READY
               /\ "script_text" \in DOMAIN g[1]
               /\ Truthy(g[1].script_text)

\* C2: right after a reconcile, the matched record's script_text, audio_url and
\* image_urls equal those of the normalized event, and every READY record
\* carries the three flat fields.
C2_FlatFieldsInSync ==
    /\ lastReconcile.ev # 0 =>
          LET d == jobs[lastReconcile.doc]
              n == Normalize(Events[lastReconcile.ev])
          IN  /\ {"script_text", "audio_url", "image_urls"} \subseteq DOMAIN d
              /\ d.script_text = n.script_text
              /\ d.audio_url = n.audio_url
              /\ d.image_urls = n.image_urls
    /\ \A i \in 1..Len(jobs) :
          jobs[i].status = READY => {"script_text", "audio_url", "image_urls"} \subseteq DOMAIN jobs[i]

\* C3: a reconcile that applies the event the previous write to the store
\* applied, to the same record, leaves every record as it was apart from
\* updated_at: status stays READY and the scenes are replaced, not appended.
C3_ReconcileIdempotent ==
    [][(lastReconcile.n >= 1 /\ lastReconcile'.n = lastReconcile.n + 1)
         => WithoutUpdatedAt(jobs') = WithoutUpdatedAt(jobs)]_vars

C3_Witness ==
    /\ lastReconcile.n >= 2
    /\ jobs[lastReconcile.doc].status = READY
    /\ Len(jobs[lastReconcile.doc].script.scenes) = 1
    /\ jobs[lastReconcile.doc].updated_at > jobs[lastReconcile.doc].created_at + 1

\* C4: when the same message has been processed twice in sequence, nothing
\* else running, the store holds exactly one record with its job_id and
\* equals, apart from updated_at, the store the first processing left.
C4_RedeliveryLeavesOneRecord ==
    (redelivery.n = 2 /\ ~NamesNoJob(Events[redelivery.ev]))
    => /\ WithoutUpdatedAt(jobs) = WithoutUpdatedAt(redelivery.post)
       /\ Cardinality(RecordsOf(jobs, ResolveJobId(Events[redelivery.ev]))) = 1

\* C5: no two records of the store carry the same job_id.
C5_JobIdUnique ==
    \A i, j \in 1..Len(jobs) : jobs[i].job_id = jobs[j].job_id => i = j

\* C6: a handler that has processed an event naming no job but a collection
\* made exactly one publish, to collection:<collection_id>, and neither
\* created nor updated a record.
C6_CollectionOnlyEvent ==
    \A h \in Handlers :
        (Done(h) /\ NamesNoJob(Event(tasks[h])) /\ ~NamesNoCollection(Event(tasks[h])))
        => /\ tasks[h].pubs = << "collection:" \o ExtractCollectionId(Event(tasks[h])) >>
           /\ ~tasks[h].created
           /\ ~tasks[h].wrote

C6_Witness ==
    \E h \in Handlers :
        /\ Done(h)
        /\ tasks[h].ev = 3
        /\ tasks[h].pubs = << "collection:c1" >>
        /\ "collection:c1" \in DOMAIN active_connections
        /\ jobs = <<>>

\* C7: a handler that has processed an event naming neither a job nor a
\* collection made no publish, wrote nothing to the store and raised nothing.
C7_UnresolvableEventDropped ==
    \A h \in Handlers :
        (Done(h) /\ NamesNoJob(Event(tasks[h])) /\ NamesNoCollection(Event(tasks[h])))
        => /\ tasks[h].pubs = <<>>
           /\ ~tasks[h].created
           /\ ~tasks[h].wrote
           /\ ~tasks[h].raised

C7_Witness ==
    \E h \in Handlers :
        /\ Done(h)
        /\ tasks[h].ev = 4
        /\ tasks[h].pubs = <<>>
        /\ DOMAIN active_connections # {}

\* C8: when a handler is done, none of its publishes raised and every
\* connection that stayed registered under the topic during a whole publish
\* was sent the message.
C8_PublishSurvivesChurn ==
    \A h \in Handlers : Done(h) => (~tasks[h].raised /\ tasks[h].missed = {})

\* C9: when a handler is done and a send of one of its publishes failed, every
\* connection whose send failed is gone from the topic and nothing was raised
\* to the handler.
C9_SendFailureIsolated ==
    \A h \in Handlers :
        (Done(h) /\ tasks[h].sendFailed) => (tasks[h].unpruned = {} /\ ~tasks[h].raised)

\* C10: a publish to a topic that is not in the registry sends nothing, raises
\* nothing and leaves the registry as it was, without an entry for the topic.
C10_PublishWithoutSubscribers ==
    [][\A h \in Handlers :
         \A p \in (Len(tasks[h].pubs) + 1)..Len(tasks'[h].pubs) :
            LET key == tasks'[h].pubs[p]
            IN  key \notin DOMAIN active_connections
                => /\ key \notin DOMAIN active_connections'
                   /\ ~tasks'[h].raised
                   /\ ~(tasks'[h].pc = "send" /\ tasks'[h].key = key)
                   /\ tasks[h].pc # "send" => active_connections' = active_connections]_vars

C10_Witness ==
    \E h \in Handlers :
        /\ Done(h)
        /\ tasks[h].pubs = << "job:abc-123-uuid", "collection:c1" >>
        /\ ~tasks[h].raised
        /\ active_connections = EmptyDict
        /\ \A w \in Sockets : sockets[w].st = "new"


\* C13: a publish to job:J sends only to connections registered under job:J,
\* sends to none of them twice, and skips none that stayed registered under
\* job:J for the whole publish.
C13_JobSubscribersSentOnce ==
    \A h \in Handlers :
        /\ (tasks[h].pc = "send" /\ tasks[h].stage = "job" /\ sockets[tasks[h].cur].st = "open")
           => sockets[tasks[h].cur].job_id = JobIdOf(tasks[h])
        /\ ~tasks[h].resent
        /\ \A w \in tasks[h].missed : ~(sockets[w].st = "open" /\ Truthy(sockets[w].job_id))

\* C18: a handler that has processed an event naming a job made one publish to
\* job:<job_id> with the job_complete message carrying job_id, script_text,
\* audio_url and image_urls and, when the event has a collection_id, then one
\* publish to collection:<collection_id> with script_generated, completed, 100.
C18_JobThenCollectionPublished ==
    \A h \in Handlers :
        (Done(h) /\ ~NamesNoJob(Event(tasks[h])))
        => LET n == Normalize(Event(tasks[h]))
               tk == tasks[h]
           IN  /\ Len(tk.pubs) >= 1
               /\ tk.pubs[1] = "job:" \o n.job_id
               /\ MessagesOf(tk)[1].type = "job_complete"
               /\ MessagesOf(tk)[1].job_id = n.job_id
               /\ MessagesOf(tk)[1].script_text = n.script_text
               /\ MessagesOf(tk)[1].audio_url = n.audio_url
               /\ MessagesOf(tk)[1].image_urls = n.image_urls
               /\ IF NamesNoCollection(Event(tk))
                  THEN Len(tk.pubs) = 1
                  ELSE /\ Len(tk.pubs) = 2
                       /\ tk.pubs[2] = "collection:" \o n.collection_id
                       /\ MessagesOf(tk)[2].type = "script_generated"
                       /\ MessagesOf(tk)[2].status = "completed"
                       /\ MessagesOf(tk)[2].progress = "#100"

\* C20: while one handler waits for a send to return, no other handler waits
\* for it: another handler can read the store and go on to create or reconcile
\* its job, and a free handler can take the next message.
C20_SendDoesNotStallReconcile ==
    \A h \in Handlers :
        tasks[h].pc = "send"
        => \A g \in Handlers \ {h} :
              /\ Runnable(tasks, g)
              /\ tasks[g].pc \in {"get_job_id", "get_oid", "get_uuid", "get_id"} => ENABLED GetAttempt(g)
              /\ (~InFlight(tasks[g]) /\ deliveries < MaxMessages)
                 => ENABLED (\E e \in SlowSendEvents : Receive(g, e))

\* handler 1 still waits for the first send of its message while handler 2,
\* which got its message later, has created and reconciled another event's job
C20_Witness ==
    /\ tasks[1].pc = "send"
    /\ tasks[1].ev = 3
    /\ tasks[1].idx = 1
    /\ tasks[2].pc = "fanout"
    /\ tasks[2].ev = 1
    /\ tasks[2].created
    /\ Len(jobs) = 1
    /\ jobs[1].status = READY


\* C11: no topic of the registry has an empty connection list, whenever no
\* registry operation is in the middle of a step: after a subscribe, an
\* unsubscribe, and at every await and at the end of a publish or broadcast.
C11_NoEmptyTopic ==
    \A key \in DOMAIN active_connections : active_connections[key] # <<>>

\* a broadcast has pruned the last connection of a topic after its send failed
C11_Witness ==
    /\ bcast.pc = "done"
    /\ bcast.sendFailed
    /\ ~bcast.raised
    /\ \E w \in Sockets :
          /\ sockets[w].st = "open"
          /\ ConnectionKey(sockets[w].job_id, sockets[w].collection_id) \notin DOMAIN active_connections
    /\ \E w \in Sockets : sockets[w].st = "closed"


\* C12: when a publish to a topic has returned before another publish to the
\* same topic starts, no connection receives the later message before the
\* earlier one.
C12_SequentialPublishesInOrder ==
    trace.on =>
        \A w \in Sockets : \A i, j \in 1..Len(trace.inbox[w]) :
            LET first == trace.inbox[w][i]
                second == trace.inbox[w][j]
            IN  (i < j /\ trace.started[first].key = trace.started[second].key)
                    => second \notin trace.started[first].after

\* a connection has received both messages of two publishes to one topic, the
\* second of which started after the first had returned
C12_Witness ==
    /\ trace.on
    /\ \E w \in Sockets : \E i, j \in 1..Len(trace.inbox[w]) :
           LET first == trace.inbox[w][i]
               second == trace.inbox[w][j]
           IN  /\ i < j
               /\ trace.started[first].key = trace.started[second].key
               /\ first \in trace.started[second].after


\* the publish is a job_complete to the topic of socket w's job
LiveJobComplete(w, p) ==
    /\ p \in DOMAIN trace.started
    /\ trace.started[p].key = "job:" \o sockets[w].job_id

\* C14: a connection subscribed to job:J that has received both its job_status
\* snapshot and a live job_complete published for J received the snapshot first.
C14_SnapshotBeforeLive ==
    trace.on =>
        \A w \in Sockets : \A i, j \in 1..Len(trace.inbox[w]) :
            (i < j /\ LiveJobComplete(w, trace.inbox[w][i])) => trace.inbox[w][j] # JobStatusMessage


\* something failed while the task's message was processed
Failure(tk) == tk.raised \/ tk.storeError \/ tk.sendFailed

\* C15: no exception leaves process_message, whatever failed while a message
\* was processed (decoding, normalization, a store call, the fan-out, a send):
\* the message is acknowledged and the consumer can take the next message.
C15_FailuresStayInside ==
    /\ \A h \in Handlers : tasks[h].pc # "crashed"
    /\ \A h \in Handlers : (Done(h) /\ Failure(tasks[h])) => tasks[h].acked
    /\ ((\E h \in Handlers : Done(h) /\ Failure(tasks[h])) /\ deliveries < MaxMessages)
          => ENABLED (\E g \in Handlers, e \in FaultEvents : Receive(g, e))

\* two messages were processed to their end: one with an undecodable body, one
\* whose store call failed and which nevertheless wrote its job and published
C15_Witness ==
    /\ deliveries = 2
    /\ \E h, g \in Handlers :
           /\ Done(h) /\ tasks[h].body \in RawBodies /\ tasks[h].raised /\ tasks[h].acked
           /\ Done(g) /\ tasks[g].storeError /\ tasks[g].wrote /\ tasks[g].pubs # <<>> /\ tasks[g].acked

\* C16: processing a message whose body cannot be decoded invokes no callback,
\* leaves the job store and the registry as they were, and ends with the
\* message acknowledged, not rejected or requeued.
C16_UndecodableDroppedAndAcked ==
    [][\A h \in Handlers, b \in RawBodies :
         ReceiveBody(h, b) => /\ tasks'[h].pc = "done"
                              /\ tasks'[h].acked
                              /\ tasks'[h].called = <<>>
                              /\ jobs' = jobs
                              /\ active_connections' = active_connections]_vars

\* an undecodable message was dropped while the store held a job and the
\* registry a subscriber
C16_Witness ==
    /\ jobs # <<>>
    /\ DOMAIN active_connections # {}
    /\ \E h \in Handlers :
           /\ Done(h) /\ tasks[h].body \in RawBodies
           /\ tasks[h].acked /\ tasks[h].called = <<>> /\ ~tasks[h].wrote /\ tasks[h].pubs = <<>>


\* the identifier of the event, read from its fields as the claim names them
IdentifierOf(data) ==
    IF ~Blank(DictGet(DictGetOr(data, "script", EmptyDict), "_id"))
    THEN DictGet(DictGetOr(data, "script", EmptyDict), "_id")
    ELSE IF ~Blank(DictGet(data, "script_id")) THEN DictGet(data, "script_id")
    ELSE DictGet(data, "collection_id")

RegisteredKeys == {callbacks[i] : i \in 1..Len(callbacks)}

\* the registered keys that are a substring of the identifier or contain it
SubstringKeys(id) == {k \in RegisteredKeys : Contains(id, k) \/ Contains(k, id)}

\* C17: a message with a resolved identifier has exactly one callback invoked:
\* the one registered under the identifier if there is one, else one whose key
\* is a substring of the identifier or contains it, else the default callback.
C17_OneCallbackByTier ==
    [][\A h \in Handlers, e \in 1..Len(AllEvents) :
         (Dispatch(h, e) /\ ~Blank(IdentifierOf(AllEvents[e])))
            => LET id == IdentifierOf(AllEvents[e])
                   called == tasks'[h].called
               IN  /\ Len(called) = 1
                   /\ id \in RegisteredKeys => called[1] = id
                   /\ (id \notin RegisteredKeys /\ SubstringKeys(id) # {}) => called[1] \in SubstringKeys(id)
                   /\ (id \notin RegisteredKeys /\ SubstringKeys(id) = {}) => called[1] = DefaultCallback]_vars

\* a message was dispatched to the callback registered under its identifier
\* while a key registered earlier is a substring of that identifier
C17_Witness ==
    /\ Len(callbacks) = 2
    /\ callbacks[1] = "abc"
    /\ \E h \in Handlers : tasks[h].pc = "done" /\ tasks[h].ev = 1 /\ tasks[h].called = <<callbacks[2]>>


\* the $set documents of the calls that have not written yet
PendingFieldSets ==
    {ReconcileSet(UpdateData(Normalize(Event(tasks[h])), tasks[h].ts), tasks[h].ts) :
        h \in {g \in Handlers : tasks[g].pc \in {"upd_job_id", "upd_oid", "upd_uuid", "upd_id", "upd_coll"}}}
    \cup {Merge([status |-> statusCall.status, updated_at |-> statusCall.ts], statusCall.data) :
            x \in {y \in {1} : statusCall.pc \in {"st_job_id", "st_oid", "st_id"}}}

\* doc2 is doc with every field of set taking set's value and all others kept
WholeFieldSetWritten(doc, doc2, set) ==
    /\ DOMAIN doc2 = DOMAIN doc \cup DOMAIN set
    /\ \A f \in DOMAIN set : doc2[f] = set[f]
    /\ \A f \in DOMAIN doc \ DOMAIN set : doc2[f] = doc[f]

\* C19: while update_job_status and update_job_from_script_ready overlap on a
\* job, every change of its record is the whole field set of one of the calls
\* written in one step: each field of the set takes that call's value (the last
\* writer wins) and the other fields keep theirs, so the record is the one a
\* serial order of the calls' writes produces.
C19_WholeFieldSetPerWrite ==
    [][\A i \in 1..Len(jobs) :
         jobs'[i] # jobs[i] => \E set \in PendingFieldSets : WholeFieldSetWritten(jobs[i], jobs'[i], set)]_vars

\* update_job_status took its timestamp, a reconciliation that started later
\* wrote the record first, and the status call then wrote over it: the record
\* has the status call's status and timestamp and the reconciliation's script
C19_Witness ==
    /\ statusCall.pc = "done" /\ statusCall.wrote /\ statusCall.raced
    /\ \E i \in 1..Len(jobs) :
           /\ jobs[i].job_id = statusCall.job_id
           /\ jobs[i].status = statusCall.status
           /\ jobs[i].updated_at = statusCall.ts
           /\ "script" \in DOMAIN jobs[i]


\* the event's collection_id as update_job_from_script_ready's caller passes it
CollectionIdIn(data) ==
    IF "script" \in DOMAIN data THEN DictGet(data.script, "collection_id") ELSE DictGet(data, "collection_id")

\* the records whose field equals x
Matching(js, field, x) == {i \in 1..Len(js) : field \in DOMAIN js[i] /\ js[i][field] = x}

\* no record matches the identifier by any field, nor the collection_id
NothingMatches(js, job_id, data) ==
    /\ \A field \in {"job_id", "_id", "uuid", "id"} : Matching(js, field, job_id) = {}
    /\ Blank(CollectionIdIn(data)) \/ Matching(js, "collection_id", CollectionIdIn(data)) = {}

ReconcileRunning ==
    /\ statusCall.op = "update_job_from_script_ready"
    /\ statusCall.pc \notin {"idle", "done"}

\* C21: while update_job_from_script_ready runs for an identifier (and
\* collection_id) that no record matches, no step of it changes the jobs
\* collection - no record is created, none modified - and it returns without
\* raising.
C21_ReconcileNeverCreates ==
    [][(ReconcileRunning /\ NothingMatches(jobs, statusCall.job_id, statusCall.data))
          => /\ jobs' = jobs
             /\ ~statusCall'.raised
             /\ ~statusCall'.wrote]_vars

\* a reconcile for an unknown identifier with an unknown collection_id has
\* returned and the collection is as it was
C21_Witness ==
    /\ statusCall.op = "update_job_from_script_ready"
    /\ statusCall.pc = "done"
    /\ statusCall.job_id = "nope"
    /\ ~Blank(CollectionIdIn(statusCall.data))
    /\ NothingMatches(jobs, statusCall.job_id, statusCall.data)
    /\ ~statusCall.wrote


\* the first record, in the collection's natural order, whose field equals x; 0 when none
FirstMatching(js, field, x) ==
    LET hits == Matching(js, field, x)
    IN  IF hits = {} THEN 0 ELSE CHOOSE i \in hits : \A j \in hits : i <= j

\* the record the ordered match strategies select: by job_id, else by storage
\* key, else by uuid, else by id, else - a collection_id given - by collection_id
OrderedTarget(js, job_id, data) ==
    LET byField == [k \in 1..4 |-> FirstMatching(js, <<"job_id", "_id", "uuid", "id">>[k], job_id)]
        found == {k \in 1..4 : byField[k] # 0}
    IN  IF found # {} THEN byField[CHOOSE k \in found : \A l \in found : k <= l]
        ELSE IF Blank(CollectionIdIn(data)) THEN 0
        ELSE FirstMatching(js, "collection_id", CollectionIdIn(data))

\* the records a step changes
Changed == {i \in 1..Len(jobs) : i > Len(jobs') \/ jobs'[i] # jobs[i]}

\* C22: a step of update_job_from_script_ready changes no record but the one
\* selected by the first matching strategy in the order job_id, storage key,
\* uuid, id, collection_id; the call returns having updated exactly that one
\* record when a strategy matches, and none otherwise, also when several
\* records match.
C22_FirstStrategyOneRecord ==
    [][ReconcileRunning
          => LET target == OrderedTarget(jobs, statusCall.job_id, statusCall.data)
             IN  /\ Len(jobs') = Len(jobs)
                 /\ Changed \subseteq {target} \ {0}
                 /\ statusCall'.pc = "done" => /\ (target # 0 => Changed = {target} /\ statusCall'.doc = target)
                                               /\ (target = 0 => Changed = {})
                 /\ statusCall'.pc # "done" => Changed = {}]_vars

\* a reconcile by an identifier that is the uuid of one record and the id of an
\* earlier one has updated the record matched by uuid and left the other alone
C22_Witness ==
    /\ statusCall.op = "update_job_from_script_ready"
    /\ statusCall.pc = "done"
    /\ statusCall.job_id = "legacy"
    /\ statusCall.doc = 5
    /\ jobs[5].status = READY
    /\ jobs[4] = LegacyJobs[4]
    /\ Matching(jobs, "id", "legacy") = {4}


StatusRunning ==
    /\ statusCall.op = "update_job_status"
    /\ statusCall.pc \notin {"idle", "done"}

\* the record selected by the first of the given fields that matches x; 0 when none does
TargetBy(js, fields, x) ==
    LET byField == [k \in 1..Len(fields) |-> FirstMatching(js, fields[k], x)]
        found == {k \in 1..Len(fields) : byField[k] # 0}
    IN  IF found = {} THEN 0 ELSE byField[CHOOSE k \in found : \A l \in found : k <= l]

\* C23: update_job_status changes no record but the one selected by the first
\* match among job_id, storage key, id, uuid, and returns having updated
\* exactly that record whenever one of the four matches - in particular a
\* record that only its uuid field matches.
C23_StatusUpdatesFirstMatch ==
    [][StatusRunning
          => LET target == TargetBy(jobs, <<"job_id", "_id", "id", "uuid">>, statusCall.job_id)
             IN  /\ Len(jobs') = Len(jobs)
                 /\ Changed \subseteq {target} \ {0}
                 /\ statusCall'.pc = "done" => /\ (target # 0 => Changed = {target})
                                               /\ (target = 0 => Changed = {})]_vars


GetReturned ==
    /\ statusCall.op = "get_job"
    /\ statusCall.pc = "done"

\* C24: get_job(x) returns the record whose job_id is x when there is one,
\* whatever other records match x by storage key, uuid or id; with no such
\* record the one whose storage key is x, else the one whose uuid is x, else
\* the one whose id is x; and None when no record matches.
C24_GetPrefersJobId ==
    GetReturned
      => LET target == TargetBy(jobs, <<"job_id", "_id", "uuid", "id">>, statusCall.job_id)
         IN  IF target = 0 THEN statusCall.ret = <<>>
             ELSE /\ Len(statusCall.ret) = 1
                  /\ statusCall.ret[1].job_id = jobs[target].job_id
                  /\ statusCall.ret[1].id = jobs[target]._id

\* get_job of an identifier that is one record's job_id and an earlier
\* record's storage key has returned the former
C24_Witness ==
    /\ GetReturned
    /\ statusCall.job_id = NewObjectId(1)
    /\ jobs[1]._id = NewObjectId(1)
    /\ Len(statusCall.ret) = 1
    /\ statusCall.ret[1].job_id = NewObjectId(1)
    /\ statusCall.ret[1].id = NewObjectId(3)


\* the fields the running call's update carries
Carried ==
    {"status", "updated_at"}
      \cup (IF statusCall.op = "update_job_status" THEN DOMAIN statusCall.data
            ELSE DOMAIN statusCall.data \cap {"script", "voice_data", "image_data"})

\* the status the running call writes
CarriedStatus == IF statusCall.op = "update_job_status" THEN statusCall.status ELSE READY

\* the running call's next lookup matches a record
LookupMatches ==
    IF statusCall.op = "update_job_status"
    THEN Matching(jobs, StatusField(statusCall.pc), statusCall.job_id) # {}
    ELSE Matching(jobs, ReconcileField(statusCall.pc),
                  IF statusCall.pc = "upd_coll" THEN CollectionIdIn(statusCall.data) ELSE statusCall.job_id) # {}

\* C25: a step of update_job_status or update_job_from_script_ready leaves
\* every field outside status, updated_at and the fields its update carries as
\* it was, in every record, adding and removing none; and when its lookup
\* matches, the write is made whatever status the record has - earlier, later
\* or the same: exactly one record takes the call's status, timestamp and
\* carried fields.
C25_PartialMergeLastWriteWins ==
    [][(StatusRunning \/ ReconcileRunning)
          => /\ Len(jobs') = Len(jobs)
             /\ \A i \in 1..Len(jobs) :
                    /\ DOMAIN jobs'[i] \ Carried = DOMAIN jobs[i] \ Carried
                    /\ \A f \in DOMAIN jobs[i] \ Carried : jobs'[i][f] = jobs[i][f]
             /\ LookupMatches
                  => /\ statusCall'.pc = "done" /\ statusCall'.wrote
                     /\ Cardinality(Changed) = 1
                     /\ \A i \in Changed :
                            /\ jobs'[i].status = CarriedStatus
                            /\ jobs'[i].updated_at = statusCall.ts
                            /\ \A f \in Carried \ {"status", "updated_at"} : jobs'[i][f] = statusCall.data[f]]_vars

\* update_job_status has moved a READY job back to SCRIPT_GENERATED: the write
\* was made, the script_text it carries is stored, the other fields of the
\* record and the other records are as they were
C25_Witness ==
    /\ statusCall.op = "update_job_status" /\ statusCall.pc = "done" /\ statusCall.wrote
    /\ statusCall.status = SCRIPT_GENERATED
    /\ LegacyJobs[statusCall.doc].status = READY
    /\ jobs[statusCall.doc].status = SCRIPT_GENERATED
    /\ jobs[statusCall.doc].script_text = "edited"
    /\ jobs[statusCall.doc].title = LegacyJobs[statusCall.doc].title
    /\ \A i \in 1..Len(jobs) : i # statusCall.doc => jobs[i] = LegacyJobs[i]


\* C26: no step changes the created_at of a stored job, lowers its updated_at,
\* or leaves its updated_at earlier than its created_at.
C26_TimestampsMonotone ==
    [][\A i \in 1..Len(jobs) :
         /\ i <= Len(jobs')
         /\ jobs'[i].created_at = jobs[i].created_at
         /\ jobs'[i].updated_at >= jobs[i].updated_at
         /\ jobs'[i].updated_at >= jobs'[i].created_at]_vars


CreateReturned ==
    /\ statusCall.op = "create_job"
    /\ statusCall.pc = "done"

\* the first of job_id, script_id, id that job_data supplies; None when it supplies none
Supplied(job_data) ==
    LET given == {k \in 1..3 : ~Blank(DictGet(job_data, <<"job_id", "script_id", "id">>[k]))}
    IN  IF given = {} THEN None
        ELSE job_data[<<"job_id", "script_id", "id">>[CHOOSE k \in given : \A l \in given : k <= l]]

\* C27: when create_job returns, the record it stored has as job_id the
\* supplied job_id, else script_id, else id, else a new UUID that no other
\* record has; its status is PENDING whatever status was supplied; created_at
\* and updated_at are the time of the call; and the value returned is that
\* job_id, not the storage key.
C27_CreateAssignsJobId ==
    CreateReturned
      => LET doc == jobs[statusCall.doc]
         IN  /\ statusCall.doc = Len(jobs)
             /\ IF Supplied(statusCall.data) # None THEN doc.job_id = Supplied(statusCall.data)
                ELSE /\ Len(doc.job_id) = 36
                     /\ Matching(jobs, "job_id", doc.job_id) = {statusCall.doc}
             /\ doc.status = PENDING
             /\ doc.created_at = statusCall.ts
             /\ doc.updated_at = statusCall.ts
             /\ statusCall.ret = << doc.job_id >>
             /\ statusCall.ret # << doc._id >>

\* create_job was given job_id, script_id and id together with status READY:
\* the job is stored PENDING under the job_id, which is returned
C27_Witness ==
    /\ CreateReturned
    /\ DictGet(statusCall.data, "job_id") = "j1"
    /\ DictGet(statusCall.data, "script_id") = "s1"
    /\ DictGet(statusCall.data, "status") = READY
    /\ jobs[Len(jobs)].job_id = "j1"
    /\ jobs[Len(jobs)].status = PENDING
    /\ statusCall.ret = << "j1" >>


\* the one topic the arguments name: the job's when a job_id is given, else
\* the collection's when a collection_id is given, else general
TopicOf(job_id, collection_id) ==
    IF ~Blank(job_id) THEN "job:" \o job_id
    ELSE IF ~Blank(collection_id) THEN "collection:" \o collection_id
    ELSE "general"

\* the subscribers of a topic, in order; none when the topic does not exist
Subscribers(reg, key) == IF key \in DOMAIN reg THEN reg[key] ELSE <<>>

AllTopics == DOMAIN active_connections \cup DOMAIN active_connections'

Without(lst, w) == SelectSeq(lst, LAMBDA x : x # w)

\* C28: connect adds the connection to the topic its arguments name - the
\* job's even when a collection_id is given too, else the collection's, else
\* general - and to no other; disconnect with the same arguments removes it
\* from that topic; both leave every other topic and the other connections of
\* the topic as they were.
C28_OneTopicByPrecedence ==
    [][/\ \A w \in Sockets, sub \in TopicArguments :
             Connect(w, sub)
               => LET key == TopicOf(sub.job_id, sub.collection_id)
                  IN  /\ Subscribers(active_connections', key) = Append(Subscribers(active_connections, key), w)
                      /\ \A k \in AllTopics \ {key} :
                             Subscribers(active_connections', k) = Subscribers(active_connections, k)
       /\ \A w \in Sockets :
             Disconnect(w)
               => LET key == TopicOf(sockets[w].job_id, sockets[w].collection_id)
                  IN  /\ Subscribers(active_connections', key) = Without(Subscribers(active_connections, key), w)
                      /\ \A k \in AllTopics \ {key} :
                             Subscribers(active_connections', k) = Subscribers(active_connections, k)]_vars

\* a connection made with a job_id and a collection_id is subscribed to the
\* job's topic and not to the collection's, after another connection of the
\* same job was unsubscribed and is in no topic
C28_Witness ==
    \E w, v \in Sockets :
        /\ sockets[w].st = "open"
        /\ ~Blank(sockets[w].job_id) /\ ~Blank(sockets[w].collection_id)
        /\ w \in Members(active_connections, "job:" \o sockets[w].job_id)
        /\ \A k \in DOMAIN active_connections \ {"job:" \o sockets[w].job_id} : w \notin Members(active_connections, k)
        /\ sockets[v].st = "closed"
        /\ \A k \in DOMAIN active_connections : v \notin Members(active_connections, k)


\* the handlers that have taken a message
Taken == {h \in Handlers : tasks[h].ev # 0}

ScriptOf(data) == DictGetOr(data, "script", EmptyDict)

ResolvedText(data) ==
    LET candidates == << DictGet(ScriptOf(data), "script_text"), DictGet(ScriptOf(data), "content"),
                         DictGet(data, "content"), DictGet(data, "text") >>
        given == {k \in 1..4 : ~Blank(candidates[k])}
    IN  IF given = {} THEN "" ELSE candidates[CHOOSE k \in given : \A l \in given : k <= l]

\* C30: the scenes the handler extracts from an event are script.scenes when
\* that is present and not empty; otherwise, when the event's text - after the
\* fallbacks script.content, content, text - is not empty, exactly one scene
\* with scene_id "<job_id>_scene_1", the text as script and
\* script.visual_description as visual.
C30_ScenesSynthesizedFromText ==
    \A h \in Taken :
        LET data == Event(tasks[h])
            n == Normalize(data)
            given == DictGetOr(ScriptOf(data), "scenes", <<>>)
        IN  Truthy(n.job_id)
              => IF given # <<>> THEN n.scenes = given
                 ELSE ~Blank(ResolvedText(data))
                        => /\ Len(n.scenes) = 1
                           /\ n.scenes[1].scene_id = n.job_id \o "_scene_1"
                           /\ n.scenes[1].script = ResolvedText(data)
                           /\ n.scenes[1].visual = DictGetOr(ScriptOf(data), "visual_description", "")


StatusReturned ==
    /\ statusCall.op = "update_job_status"
    /\ statusCall.pc = "done"

\* Python's True and False
PyTrue == "#True"
PyFalse == "#False"

\* C31: when update_job_status returns, the value its caller gets is True if
\* the call matched and updated a record and False if it matched none.
C31_StatusReturnsMatched ==
    StatusReturned => statusCall.ret = << IF statusCall.wrote THEN PyTrue ELSE PyFalse >>


\* the store holds a READY record of the job
StoredReady(job_id) == \E i \in 1..Len(jobs) : jobs[i].job_id = job_id /\ jobs[i].status = READY

\* C32: when a handler starts sending the job_complete message of its event
\* to the job's subscribers, the store holds a record of the job with status
\* READY: there is no such send after a create or reconcile that failed.
C32_FanOutAfterReconcile ==
    [][\A h \in Handlers :
         (FanOut(h) /\ tasks'[h].pc = "send" /\ tasks'[h].stage = "job")
            => StoredReady(JobIdOf(tasks[h]))]_vars


\* C33: every delivered message is eventually acknowledged, whether its
\* processing completed or failed in decoding, in the handler or in a store
\* call; the acknowledgement is made in the step that ends the handler body,
\* once, and no message is ever rejected or requeued.
C33_EveryMessageAcknowledged ==
    /\ \A h \in Handlers : InFlight(tasks[h]) ~> (Done(h) /\ tasks[h].acked)
    /\ [][\A h \in Handlers :
            /\ (tasks'[h].acked /\ ~tasks[h].acked) => (InFlight(tasks[h]) \/ tasks[h].pc = "idle") /\ Done(h)'
            /\ tasks'[h].pc # "crashed"
            /\ (Done(h) /\ Done(h)' /\ tasks[h].acked) => tasks'[h].acked]_vars

\* a message whose create_job raised has been published and acknowledged
C33_Witness ==
    \E h \in Handlers :
        /\ Done(h) /\ tasks[h].acked
        /\ tasks[h].storeError /\ ~tasks[h].wrote /\ tasks[h].pubs # <<>>


\* ------------------------------------------------ completions and subscribers
\* the connection is still registered under the topic of the job it asked for
SubscribedToJob(w) ==
    /\ sockets[w].st \in {"open", "aborted"}
    /\ Truthy(sockets[w].job_id)
    /\ ("job:" \o sockets[w].job_id) \in DOMAIN active_connections
    /\ w \in Members(active_connections, "job:" \o sockets[w].job_id)

\* a job_complete for the connection's job is among the messages it received
ReceivedJobComplete(w) ==
    \E i \in 1..Len(trace.inbox[w]) :
        trace.inbox[w][i] = JobCompleteSnapshot \/ LiveJobComplete(w, trace.inbox[w][i])

\* C34: no completion is lost to a subscriber: once an event for J is reconciled
\* (the record is READY), no handler is still running and the endpoint of a
\* connection that stays subscribed to job:J is past its snapshot, the
\* connection has received a job_complete for J, from the snapshot or live.
C34_NoCompletionLost ==
    trace.on =>
        \A w \in Sockets :
            (/\ SubscribedToJob(w)
             /\ StoredReady(sockets[w].job_id)
             /\ \A h \in Handlers : ~InFlight(tasks[h]))
                => ReceivedJobComplete(w)


\* ------------------------------------------------- what a publish removes
\* the connections whose send of the running publish has failed, the awaited
\* one included when its send_json raises now
FailedSends(tk, ok) == tk.failed \cup (IF ok THEN {} ELSE {tk.cur})

\* the connections the running publish has sent its message to
SucceededSends(tk, ok) == tk.tried \ FailedSends(tk, ok)

\* C35: a publish takes out of the registry only connections whose send of
\* that message failed: a connection the publish has sent the message to and
\* that is registered under the topic before a step of the publish is still
\* registered under it after the step, whatever was connected or disconnected
\* while the publish was in progress.
C35_OnlyFailedRemoved ==
    [][\A h \in Handlers, ok \in BOOLEAN :
         SendComplete(h, ok) =>
            \A w \in SucceededSends(tasks[h], ok) :
                w \in Members(active_connections, tasks[h].key)
                    => w \in Members(active_connections', tasks[h].key)]_vars


\* ------------------------------------------------ endpoints that have finished
\* websocket_endpoint has returned: after the client's disconnect, or through
\* its outer except clause
EndpointFinished(w) == sockets[w].st \in {"closed", "aborted"}

\* C36: the registry holds only live connections: a connection whose endpoint
\* handler has finished is registered under no topic.
C36_OnlyLiveRegistered ==
    \A w \in Sockets :
        EndpointFinished(w) => \A k \in DOMAIN active_connections : w \notin Members(active_connections, k)


\* ------------------------------------------- the job identifier clients see
\* get_script_status, lines 621-626: the response built from the job get_job returned
ScriptStatusResponse(job) ==
    [job_id |-> job.id, status |-> job.status, created_at |-> job.created_at, updated_at |-> job.updated_at]

\* websocket_endpoint, lines 809-813: the job_status snapshot built from the
\* job get_job returned
JobStatusSnapshot(job) == [type |-> "job_status", job_id |-> job.id, status |-> job.status]

\* C37: the job identifier reported to clients is the canonical job_id: when
\* get_job has returned a job, the status endpoint's response and the
\* job_status snapshot built from it carry the record's job_id, the one
\* create_job returned and live job_complete notifications carry.
C37_ReportsCanonicalJobId ==
    (statusCall.op = "get_job" /\ statusCall.pc = "done" /\ Len(statusCall.ret) = 1)
        => /\ ScriptStatusResponse(statusCall.ret[1]).job_id = statusCall.ret[1].job_id
           /\ JobStatusSnapshot(statusCall.ret[1]).job_id = statusCall.ret[1].job_id


\* ------------------------------------------------- make_service_request
\* config.py, line 26
MAX_RETRIES == 3

MaxRequests == 1

\* the status codes an upstream service answers with
UpstreamStatuses == {200, 201, 404, 500, 503}

\* how an awaited client.request(method, url, **kwargs) ends: with a response,
\* or raising a timeout or another transport error
UpstreamOutcomes ==
    {[kind |-> "response", status_code |-> s] : s \in UpstreamStatuses}
        \cup {[kind |-> k, status_code |-> 0] : k \in {"TimeoutException", "ConnectError"}}

\* httpx.Response.raise_for_status: an error status raises HTTPStatusError
RaisesForStatus(status_code) == status_code >= 400

\* lines 403-405: what leaves the try block: the response is returned, or an
\* exception of this class is raised
RequestException(o) ==
    IF o.kind = "response" THEN (IF RaisesForStatus(o.status_code) THEN "HTTPStatusError" ELSE None)
    ELSE o.kind

\* every failure answered with 500
ErrorStatusAlways500(o) == 500

\* lines 406-416: the status code of the HTTPException the except clause that
\* catches the exception raises
ErrorStatus(o) ==
    CASE RequestException(o) = "TimeoutException" -> 504
      [] RequestException(o) = "HTTPStatusError" -> o.status_code
      [] OTHER -> 500

\* an except clause that gives up one attempt late
LastAttemptPastRange(attempt) == attempt = MAX_RETRIES

\* lines 407, 411, 415: if attempt == MAX_RETRIES - 1
LastAttempt(attempt) == attempt = MAX_RETRIES - 1

\* make_service_request(method, url, **kwargs) up to the await of its first attempt
MakeServiceRequest ==
    /\ statusCall.pc \in {"idle", "done"}
    /\ statusCall.n < MaxRequests
    /\ statusCall' = IF 0 < MAX_RETRIES
                     THEN [IdleStatusCall EXCEPT !.op = "make_service_request", !.pc = "request",
                                                 !.n = statusCall.n + 1]
                     ELSE [IdleStatusCall EXCEPT !.op = "make_service_request", !.pc = "done",
                                                 !.ret = << None >>, !.n = statusCall.n + 1]
    /\ UNCHANGED <<jobs, clock, active_connections, sockets, tasks, deliveries, lastReconcile,
                   redelivery, callbacks, bcast, trace>>

\* lines 401-416: the awaited client.request ends with o; the response is
\* returned, or the except clause raises HTTPException on the last attempt and
\* logs otherwise, and the loop goes on to its next attempt; a loop that ends
\* leaves the function without a return statement
RequestComplete(o) ==
    /\ statusCall.op = "make_service_request"
    /\ statusCall.pc = "request"
    /\ LET c == [statusCall EXCEPT !.outcomes = Append(@, o)]
       IN  statusCall' =
               IF RequestException(o) = None THEN [c EXCEPT !.pc = "done", !.ret = << o >>]
               ELSE IF LastAttempt(c.attempt)
                    THEN [c EXCEPT !.pc = "done", !.raised = TRUE, !.exc = << [status_code |-> ErrorStatus(o)] >>]
               ELSE IF c.attempt + 1 < MAX_RETRIES THEN [c EXCEPT !.attempt = @ + 1]
               ELSE [c EXCEPT !.pc = "done", !.ret = << None >>]
    /\ UNCHANGED <<jobs, clock, active_connections, sockets, tasks, deliveries, lastReconcile,
                   redelivery, callbacks, bcast, trace>>

NextRequest ==
    \/ MakeServiceRequest
    \/ \E o \in UpstreamOutcomes : RequestComplete(o)

SpecRequest == Init /\ [][NextRequest]_vars

\* the call has ended, returning or raising
RequestReturned == statusCall.op = "make_service_request" /\ statusCall.pc = "done"

\* the attempt ended with a successful response
Succeeded(o) == o.kind = "response" /\ o.status_code < 400

\* C38: make_service_request makes at most MAX_RETRIES (3) upstream attempts
\* per call; no attempt follows a successful one, whose response is what the
\* call returns; the call goes on while fewer than three attempts have failed,
\* and after the third consecutive failure it raises an HTTPException: it
\* neither tries again nor returns without a response.
C38_AtMostThreeAttempts ==
    statusCall.op = "make_service_request" =>
        LET tries == statusCall.outcomes
        IN  /\ Len(tries) <= 3
            /\ Len(tries) <= MAX_RETRIES
            /\ \A i \in 1..(Len(tries) - 1) : ~Succeeded(tries[i])
            /\ statusCall.pc = "request" => (Len(tries) < 3 /\ \A i \in 1..Len(tries) : ~Succeeded(tries[i]))
            /\ RequestReturned =>
                 /\ tries # <<>>
                 /\ Succeeded(tries[Len(tries)])
                      => (~statusCall.raised /\ statusCall.ret = << tries[Len(tries)] >>)
                 /\ ~Succeeded(tries[Len(tries)])
                      => (Len(tries) = 3 /\ statusCall.raised /\ statusCall.exc # <<>> /\ statusCall.ret = <<>>)

C38_Witness ==
    /\ RequestReturned
    /\ Len(statusCall.outcomes) = 3
    /\ \A i \in 1..3 : ~Succeeded(statusCall.outcomes[i])
    /\ statusCall.raised

\* C39: when every attempt of make_service_request has failed, the status of
\* the HTTPException it raises follows from the final attempt alone: 504 when
\* that attempt timed out, the upstream response's status code when it was
\* answered with an error status, 500 for any other error.
C39_StatusOfFinalAttempt ==
    (RequestReturned /\ \A i \in 1..Len(statusCall.outcomes) : ~Succeeded(statusCall.outcomes[i]))
        => LET final == statusCall.outcomes[Len(statusCall.outcomes)]
           IN  /\ statusCall.raised
               /\ Len(statusCall.exc) = 1
               /\ final.kind = "TimeoutException" => statusCall.exc[1].status_code = 504
               /\ final.kind = "response" => statusCall.exc[1].status_code = final.status_code
               /\ final.kind \notin {"TimeoutException", "response"} => statusCall.exc[1].status_code = 500

C39_Witness ==
    /\ RequestReturned
    /\ statusCall.raised
    /\ statusCall.outcomes[1] = [kind |-> "response", status_code |-> 503]
    /\ statusCall.outcomes[2] = [kind |-> "ConnectError", status_code |-> 0]
    /\ statusCall.outcomes[3] = [kind |-> "TimeoutException", status_code |-> 0]
    /\ statusCall.exc = << [status_code |-> 504] >>

====
